---------------------------- MODULE Spec2Model ----------------------------
(***************************************************************************)
(* Model of the data-access layer of the Telegram bot (src/db.py) and of   *)
(* the handlers of src/main.py that call it.                               *)
(*                                                                         *)
(* The store is an SQLite file.  Every operation opens its own connection  *)
(* (_connect), so the only shared state is the committed content of the    *)
(* tables and the single write lock of the file.  A connection that holds  *)
(* the write lock works on a private copy of the table (wtxn) that other   *)
(* connections cannot see until COMMIT publishes it.                       *)
(***************************************************************************)
EXTENDS Integers, Sequences, FiniteSets, TLC

(***************************************************************************)
(* Bounds of the model.                                                    *)
(***************************************************************************)
NProcs == 2             \* concurrent callers of the models registry
NumThreads == 2         \* worker threads of telebot.TeleBot(TOKEN), the default
MaxModelIdInput == 5    \* set_active_model is called with ids 1..MaxModelIdInput

Procs == 1..NProcs
WorkerThreads == {p \in Procs : p <= NumThreads}
ModelIdInputs == 1..MaxModelIdInput

NULL == "NULL"          \* SQL NULL / Python None
NoLock == 0             \* nobody holds the write lock

NUsers == 2             \* user ids 1..NUsers call the profile operations
NDays == 2              \* calendar days the clock runs through
NHourlyUsers == 1       \* user ids served by the hourly scheduler
MaxNoteSeq == 3         \* add_note is called while sqlite_sequence.seq is below
MaxEditSeq == 2         \* the same, where notes are also updated and deleted
NSearchUsers == 2       \* user ids whose notes are searched
MaxInitRuns == 2        \* init_db is run again while initCall.runs is below
MaxSearchNotes == 2     \* rows of the notes tables that are searched
MaxCharacterId == 3     \* catalogs hold rows of the seed with ids 1..MaxCharacterId
MaxLogRows == 2         \* audited calls are made while a log holds fewer rows
NProfileUsers == 1      \* user ids whose rows take every column value

DEFAULT_NOTIFY_HOUR == 9    \* config.py: DEFAULT_NOTIFY_HOUR, default "9"
MinHour == 0                \* set_notify_hour clamps to MinHour..MaxHour
MaxHour == 23
MaxNoteLen == 500           \* CHECK(length(text) BETWEEN 1 AND 500)
DefaultLimit == 10          \* list_notes: int(limit or 10)
MinLimit == 1               \* list_notes: max(1, min(..., 50))
MaxLimit == 50
DefaultCharacterId == 1     \* get_user_character: ... WHERE id=1

UserIds == 1..NUsers
HourlyUserIds == 1..NHourlyUsers
ProfileUserIds == 1..NProfileUsers
Hours == MinHour..MaxHour
\* today_str of the days of the clock, in calendar order
Calendar == <<"2025-03-01", "2025-03-02", "2025-03-03", "2025-03-04">>
Dates == {Calendar[d] : d \in 1..NDays}
\* arguments the profile operations are called with
SignInputs == {NULL, "aries"}
HourInputs == {DEFAULT_NOTIFY_HOUR, MaxHour + 1}
\* texts are sequences of characters; " " stands for white space
Whitespace == {" "}
LongText == [k \in 1..(MaxNoteLen + 1) |-> "x"]
\* the NUL character, and a text longer than MaxNoteLen that holds it
NulChar == "NUL"
NulText == <<"a", NulChar>> \o LongText
NoteTextInputs == {<<>>, <<" ">>, <<"a">>, <<" ", "a", " ">>, <<"b">>, LongText}
\* texts and note ids update_note and delete_note are called with
EditTextInputs == {<<" ">>, <<" ", "a">>, LongText, NulText}
NoteIdInputs == 1..(MaxEditSeq + 1)
\* the searches: users, stored texts, needles and limits.  CyrUpper and
\* CyrLower are the two cases of one letter outside ASCII.
CyrUpper == "CYRILLIC CAPITAL PE"
CyrLower == "cyrillic small pe"
SearchUserIds == 1..NSearchUsers
SearchTexts == {<<"a", "b">>, <<"5", "%">>, <<CyrUpper>>}
NeedleInputs == {<<" ">>, <<" ", "B", " ">>, <<"%">>, <<"_">>, <<CyrLower>>,
                 <<"z">>}
SearchLimitInputs == {MinLimit, DefaultLimit}
\* limits list_notes is called with: below, at and above both ends of the
\* clamp
LimitInputs == {MinLimit - 2, MinLimit - 1, MinLimit, MinLimit + 1,
                MaxLimit, MaxLimit + 1, 10 * MaxLimit}

VARIABLES
    models,     \* committed rows of table models: id -> [key, label, active]
    wlock,      \* the connection (caller) holding the write lock, or NoLock
    wtxn,       \* uncommitted copy of models of the lock holder, or NULL
    pc,         \* per caller: the statement it is about to execute
    op,         \* per caller: the public function it called
    arg,        \* per caller: the model_id or user_id argument (NoArg when none)
    ret,        \* per caller: the value returned / exception raised
    lastSwitch, \* history: target of the last committed switch (0: none yet)
    midRead,    \* history: callers whose last read ran while a switch was
                \* between its clear step and its set step
    users,      \* rows of table users: user_id -> [sign, notify_hour,
                \* subscribed, last_sent_date]
    today,      \* scheduler clock: index of the current day in Calendar
    hour,       \* scheduler clock: hour of the last hourly tick
    pushCount,  \* history: successful pushes per user on the current day
    failed,     \* history: per user, the date of the hourly tick at which the
                \* user was due and delivery failed, while nothing has touched
                \* the user's row since (NULL: no such tick)
    lastMarked, \* history: per user, the date of the last mark_sent_today
                \* that found the user's row (NULL: none yet)
    notes,      \* rows of table notes: id -> [user_id, text]
    noteSeq,    \* sqlite_sequence.seq of table notes (AUTOINCREMENT)
    noteCall,   \* history: the last add_note call, and whether its
                \* (user_id, text) pair was stored before the call
    noteRet,    \* the value the last add_note call returned
    noteReply,  \* the reply of the last /note_add handler
    editCall,   \* history: the last update_note / delete_note call, with
                \* its arguments and its outcome
    listRet,    \* history: the last list_notes call and the rows it returned
    searchRet,  \* history: the last search_notes call and the rows it
                \* returned
    characters, \* rows of table characters: id -> [name, prompt]
    user_character,
                \* rows of table user_character: telegram_user_id ->
                \* character_id
    personaCall,
                \* history: the last persona operation or /ask_random
                \* handler, with its arguments and its outcome
    service_call_log,
                \* rows of table service_call_log, in insertion order
    error_log,  \* rows of table error_log, in insertion order
    auditCall,  \* history: the last chat_once / write_error_log call, with
                \* the provider's answer, the fate of the audit insert, the
                \* outcome and the number of audit rows the call added
    configuredNotifyHour,
                \* config.DEFAULT_NOTIFY_HOUR as the process read it from
                \* its environment
    ensureCall, \* history: the last observed ensure_user call, whether it
                \* found the user's row, and whether that row differed from
                \* the defaults in every column
    initCall,   \* history: how many times init_db has run on the store
                \* after the run that created it, and whether the last run
                \* found a switched registry, a user, an assignment and a
                \* note
    askCall,    \* history: the last /ask update handled, with the outcome
                \* of its provider call, the reply sent, the exception that
                \* left the handler and the number of error_log rows added
    userCall    \* history: the last observed call of a users operation, its
                \* user_id, whether the user had a row, and the users for
                \* whom ensure_user has been called

registryVars == <<models, wlock, wtxn, pc, op, arg, ret, lastSwitch, midRead>>
dueVars == <<users, today, hour, pushCount, failed, lastMarked>>
noteVars == <<notes, noteSeq, noteCall, noteRet, noteReply, editCall>>
queryVars == <<listRet, searchRet>>
personaVars == <<characters, user_character, personaCall>>
auditVars == <<service_call_log, error_log, auditCall>>
profileVars == <<configuredNotifyHour, ensureCall>>
bootVars == <<initCall>>
handlerVars == <<askCall>>
callVars == <<userCall>>
extVars == <<queryVars, personaVars, auditVars, profileVars, bootVars, handlerVars, callVars>>
vars == <<registryVars, dueVars, noteVars, extVars>>

(***************************************************************************)
(* init_db: the seed of table models (INSERT OR IGNORE ... VALUES).        *)
(***************************************************************************)
SeedModels ==
    (1 :> [key |-> "deepseek/deepseek-chat-v3.1:free",
           label |-> "DeepSeek V3.1 (free)", active |-> 1]) @@
    (2 :> [key |-> "deepseek/deepseek-r1:free",
           label |-> "DeepSeek R1 (free)", active |-> 0]) @@
    (3 :> [key |-> "mistralai/mistral-small-24b-instruct-2501:free",
           label |-> "Mistral Small 24b (free)", active |-> 0]) @@
    (4 :> [key |-> "meta-llama/llama-3.1-8b-instruct:free",
           label |-> "Llama 3.1 8B (free)", active |-> 0])

\* Smallest element of a non-empty set of integers (ORDER BY id LIMIT 1).
MinOf(S) == CHOOSE x \in S : \A y \in S : x <= y

\* Ids of S in ascending order (ORDER BY id).
RECURSIVE OrderById(_)
OrderById(S) == IF S = {} THEN <<>> ELSE <<MinOf(S)>> \o OrderById(S \ {MinOf(S)})

\* Rows of a table state t with active=1.
ActiveIds(t) == {i \in DOMAIN t : t[i].active = 1}

\* Mutant: the dict is built from the first row of the table (a SELECT
\* that lost its WHERE active=1).
ModelDictFirstRow(t, i) ==
    [id |-> MinOf(DOMAIN t), key |-> t[MinOf(DOMAIN t)].key,
     label |-> t[MinOf(DOMAIN t)].label, active |-> TRUE]

\* The dict built from a row of models (lines 303, 308).
ModelDict(t, i) == [id |-> i, key |-> t[i].key, label |-> t[i].label, active |-> TRUE]

\* Some connection has executed the clear step of a switch and not yet
\* its set step.
SwitchHalfDone == \E q \in DOMAIN pc : pc[q] = "sam_set"

\* A call without an argument: list_models(), get_active_model().
NoArg == 0

Returned(v) == [kind |-> "return", value |-> v]
Raised(e) == [kind |-> "raise", value |-> e]
NoRet == [kind |-> "none", value |-> NULL]

(***************************************************************************)
(* A caller enters one of the public functions of the registry.            *)
(***************************************************************************)
CallSetActiveModel(p, model_id) ==
    /\ pc[p] = "idle"
    /\ pc' = [pc EXCEPT ![p] = "sam_begin"]
    /\ op' = [op EXCEPT ![p] = "set_active_model"]
    /\ arg' = [arg EXCEPT ![p] = model_id]
    /\ ret' = [ret EXCEPT ![p] = NoRet]
    /\ UNCHANGED <<models, wlock, wtxn, lastSwitch, midRead>>
    /\ UNCHANGED <<dueVars, noteVars, extVars>>

CallGetActiveModel(p) ==
    /\ pc[p] = "idle"
    /\ pc' = [pc EXCEPT ![p] = "gam_select"]
    /\ op' = [op EXCEPT ![p] = "get_active_model"]
    /\ arg' = [arg EXCEPT ![p] = NoArg]
    /\ ret' = [ret EXCEPT ![p] = NoRet]
    /\ UNCHANGED <<models, wlock, wtxn, lastSwitch, midRead>>
    /\ UNCHANGED <<dueVars, noteVars, extVars>>

CallListModels(p) ==
    /\ pc[p] = "idle"
    /\ pc' = [pc EXCEPT ![p] = "lm_select"]
    /\ op' = [op EXCEPT ![p] = "list_models"]
    /\ arg' = [arg EXCEPT ![p] = NoArg]
    /\ ret' = [ret EXCEPT ![p] = NoRet]
    /\ UNCHANGED <<models, wlock, wtxn, lastSwitch, midRead>>
    /\ UNCHANGED <<dueVars, noteVars, extVars>>

\* The caller consumes the result and is ready for its next call.
Finish(p) ==
    /\ pc[p] = "done"
    /\ pc' = [pc EXCEPT ![p] = "idle"]
    /\ op' = [op EXCEPT ![p] = NULL]
    /\ arg' = [arg EXCEPT ![p] = NoArg]
    /\ ret' = [ret EXCEPT ![p] = NoRet]
    /\ midRead' = midRead \ {p}
    /\ UNCHANGED <<models, wlock, wtxn, lastSwitch>>
    /\ UNCHANGED <<dueVars, noteVars, extVars>>

(***************************************************************************)
(* list_models: one SELECT over the committed rows.                        *)
(***************************************************************************)
ListModelsRows(t) ==
    [k \in 1..Cardinality(DOMAIN t) |->
        LET i == OrderById(DOMAIN t)[k]
        IN  [id |-> i, key |-> t[i].key, label |-> t[i].label,
             active |-> (t[i].active # 0)]]

list_models(p) ==
    /\ pc[p] = "lm_select"
    /\ ret' = [ret EXCEPT ![p] = Returned(ListModelsRows(models))]
    /\ pc' = [pc EXCEPT ![p] = "done"]
    /\ midRead' = IF SwitchHalfDone THEN midRead \cup {p} ELSE midRead \ {p}
    /\ UNCHANGED <<models, wlock, wtxn, op, arg, lastSwitch>>
    /\ UNCHANGED <<dueVars, noteVars, extVars>>

(***************************************************************************)
(* get_active_model, first SELECT (WHERE active=1).  The statement runs in *)
(* autocommit mode and reads the committed rows.  When no row is active    *)
(* the function goes on to its fallback (the second SELECT).               *)
(***************************************************************************)
GetActiveSelect(p) ==
    /\ pc[p] = "gam_select"
    /\ IF ActiveIds(models) # {}
       THEN /\ ret' = [ret EXCEPT ![p] =
                          Returned(ModelDict(models, MinOf(ActiveIds(models))))]
            /\ pc' = [pc EXCEPT ![p] = "done"]
       ELSE /\ pc' = [pc EXCEPT ![p] = "gam_lowest"]
            /\ ret' = ret
    /\ midRead' = IF SwitchHalfDone THEN midRead \cup {p} ELSE midRead \ {p}
    /\ UNCHANGED <<models, wlock, wtxn, op, arg, lastSwitch>>
    /\ UNCHANGED <<dueVars, noteVars, extVars>>

(***************************************************************************)
(* set_active_model, statement by statement.                               *)
(***************************************************************************)
\* BEGIN IMMEDIATE takes the write lock and starts the transaction.
SetActiveBegin(p) ==
    /\ pc[p] = "sam_begin"
    /\ wlock = NoLock
    /\ wlock' = p
    /\ wtxn' = models
    /\ pc' = [pc EXCEPT ![p] = "sam_exists"]
    /\ UNCHANGED <<models, op, arg, ret, lastSwitch, midRead>>
    /\ UNCHANGED <<dueVars, noteVars, extVars>>

\* Mutant: no busy timeout, BEGIN IMMEDIATE waits for the lock as long as
\* it is held.
SetActiveBusyWaits(p) ==
    /\ pc[p] = "sam_begin"
    /\ wlock # NoLock
    /\ UNCHANGED <<registryVars, dueVars, noteVars, extVars>>

\* BEGIN IMMEDIATE while another connection holds the lock: after
\* busy_timeout the statement fails with "database is locked".
SetActiveBusy(p) ==
    /\ pc[p] = "sam_begin"
    /\ wlock # NoLock
    /\ ret' = [ret EXCEPT ![p] = Raised("OperationalError")]
    /\ pc' = [pc EXCEPT ![p] = "done"]
    /\ UNCHANGED <<models, wlock, wtxn, op, arg, lastSwitch, midRead>>
    /\ UNCHANGED <<dueVars, noteVars, extVars>>

\* Mutant: no existence check, every id goes on to the clear step.
SetActiveExistsUnchecked(p) ==
    /\ pc[p] = "sam_exists"
    /\ pc' = [pc EXCEPT ![p] = "sam_clear"]
    /\ UNCHANGED <<models, wlock, wtxn, op, arg, ret, lastSwitch, midRead>>
    /\ UNCHANGED <<dueVars, noteVars, extVars>>

\* SELECT 1 FROM models WHERE id=?; an unknown id rolls back and raises.
SetActiveExists(p) ==
    /\ pc[p] = "sam_exists"
    /\ IF arg[p] \in DOMAIN wtxn
       THEN /\ pc' = [pc EXCEPT ![p] = "sam_clear"]
            /\ UNCHANGED <<wlock, wtxn, ret>>
       ELSE /\ wlock' = NoLock
            /\ wtxn' = NULL
            /\ ret' = [ret EXCEPT ![p] = Raised("ValueError")]
            /\ pc' = [pc EXCEPT ![p] = "done"]
    /\ UNCHANGED <<models, op, arg, lastSwitch, midRead>>
    /\ UNCHANGED <<dueVars, noteVars, extVars>>

\* UPDATE models SET active=0 WHERE active=1
ClearActive(t) == [i \in DOMAIN t |-> IF t[i].active = 1
                                      THEN [t[i] EXCEPT !.active = 0]
                                      ELSE t[i]]

\* Mutant: the clear step runs outside the transaction (autocommit), so
\* it is published at once.
SetActiveClearAutocommit(p) ==
    /\ pc[p] = "sam_clear"
    /\ models' = ClearActive(models)
    /\ wtxn' = ClearActive(wtxn)
    /\ pc' = [pc EXCEPT ![p] = "sam_set"]
    /\ UNCHANGED <<wlock, op, arg, ret, lastSwitch, midRead>>
    /\ UNCHANGED <<dueVars, noteVars, extVars>>

SetActiveClear(p) ==
    /\ pc[p] = "sam_clear"
    /\ wtxn' = ClearActive(wtxn)
    /\ pc' = [pc EXCEPT ![p] = "sam_set"]
    /\ UNCHANGED <<models, wlock, op, arg, ret, lastSwitch, midRead>>
    /\ UNCHANGED <<dueVars, noteVars, extVars>>

\* UPDATE models SET active=1 WHERE id=?  The partial unique index
\* ux_models_single_active rejects a second active row (IntegrityError);
\* the exception leaves the with-block, which rolls back.
\* Mutant: the set step keeps the WHERE active=1 of the clear step, so it
\* matches no row.
SetActiveRowStillActive(t, model_id) ==
    [i \in DOMAIN t |-> IF i = model_id /\ t[i].active = 1
                        THEN [t[i] EXCEPT !.active = 1] ELSE t[i]]

SetActiveRow(t, model_id) ==
    [i \in DOMAIN t |-> IF i = model_id THEN [t[i] EXCEPT !.active = 1] ELSE t[i]]

SetActiveSet(p) ==
    /\ pc[p] = "sam_set"
    /\ IF ActiveIds(wtxn) \ {arg[p]} = {}
       THEN /\ wtxn' = SetActiveRow(wtxn, arg[p])
            /\ pc' = [pc EXCEPT ![p] = "sam_commit"]
            /\ UNCHANGED <<wlock, ret>>
       ELSE /\ wlock' = NoLock
            /\ wtxn' = NULL
            /\ ret' = [ret EXCEPT ![p] = Raised("IntegrityError")]
            /\ pc' = [pc EXCEPT ![p] = "done"]
    /\ UNCHANGED <<models, op, arg, lastSwitch, midRead>>
    /\ UNCHANGED <<dueVars, noteVars, extVars>>

\* conn.commit() publishes the transaction and releases the lock; the
\* function then returns get_active_model().
SetActiveCommit(p) ==
    /\ pc[p] = "sam_commit"
    /\ models' = wtxn
    /\ wlock' = NoLock
    /\ wtxn' = NULL
    /\ lastSwitch' = arg[p]
    /\ pc' = [pc EXCEPT ![p] = "gam_select"]
    /\ UNCHANGED <<op, arg, ret, midRead>>
    /\ UNCHANGED <<dueVars, noteVars, extVars>>

(***************************************************************************)
(* Table users and the due-delivery selector.  Every function below is one *)
(* statement in autocommit mode on its own connection, hence one atomic    *)
(* step; it is written as a function from the table to the new table.      *)
(***************************************************************************)

\* Mutant: INSERT OR REPLACE, which rewrites an existing row with defaults.
ensure_user_replace(t, user_id) ==
    (user_id :> [sign |-> NULL, notify_hour |-> configuredNotifyHour,
                 subscribed |-> 1, last_sent_date |-> NULL]) @@ t

\* Mutant: ON CONFLICT(user_id) DO UPDATE SET notify_hour, which puts an
\* existing row back on the default hour.
ensure_user_upsert_hour(t, user_id) ==
    IF user_id \in DOMAIN t
    THEN [t EXCEPT ![user_id].notify_hour = configuredNotifyHour]
    ELSE t @@ (user_id :> [sign |-> NULL, notify_hour |-> configuredNotifyHour,
                           subscribed |-> 1, last_sent_date |-> NULL])

\* INSERT OR IGNORE INTO users(user_id, notify_hour, subscribed)
\* VALUES (?, DEFAULT_NOTIFY_HOUR, 1); sign and last_sent_date default to NULL.
\* DEFAULT_NOTIFY_HOUR is the value config.py read from the environment.
ensure_user(t, user_id) ==
    IF user_id \in DOMAIN t
    THEN t
    ELSE t @@ (user_id :> [sign |-> NULL, notify_hour |-> configuredNotifyHour,
                           subscribed |-> 1, last_sent_date |-> NULL])

\* Mutant: INSERT ... ON CONFLICT(user_id) DO UPDATE SET sign, which creates
\* the row of a user who has none.
set_sign_upsert(t, user_id, sign) ==
    IF user_id \in DOMAIN t
    THEN [t EXCEPT ![user_id].sign = sign]
    ELSE t @@ (user_id :> [sign |-> sign, notify_hour |-> configuredNotifyHour,
                           subscribed |-> 1, last_sent_date |-> NULL])

\* UPDATE users SET sign = ? WHERE user_id = ?
set_sign(t, user_id, sign) ==
    [v \in DOMAIN t |-> IF v = user_id THEN [t[v] EXCEPT !.sign = sign] ELSE t[v]]

\* hour = max(0, min(int(hour), 23))
ClampHour(h) ==
    LET lo == IF h < MaxHour THEN h ELSE MaxHour
    IN  IF lo > MinHour THEN lo ELSE MinHour

\* UPDATE users SET notify_hour = ? WHERE user_id = ?
set_notify_hour(t, user_id, h) ==
    [v \in DOMAIN t |-> IF v = user_id
                        THEN [t[v] EXCEPT !.notify_hour = ClampHour(h)]
                        ELSE t[v]]

\* val = 1 if on else 0; UPDATE users SET subscribed = ? WHERE user_id = ?
set_subscribed(t, user_id, on) ==
    [v \in DOMAIN t |-> IF v = user_id
                        THEN [t[v] EXCEPT !.subscribed = IF on THEN 1 ELSE 0]
                        ELSE t[v]]

\* Mutant: the UPDATE has lost its WHERE user_id = ? and marks every row.
mark_sent_today_all_rows(t, user_id, today_str) ==
    [v \in DOMAIN t |-> [t[v] EXCEPT !.last_sent_date = today_str]]

\* UPDATE users SET last_sent_date = ? WHERE user_id = ?
mark_sent_today(t, user_id, today_str) ==
    [v \in DOMAIN t |-> IF v = user_id
                        THEN [t[v] EXCEPT !.last_sent_date = today_str]
                        ELSE t[v]]

\* SQL's three-valued logic: "T", "F" and "U" (unknown, from a NULL operand).
SqlIsNull(x) == IF x = NULL THEN "T" ELSE "F"
SqlNot(a) == IF a = "T" THEN "F" ELSE IF a = "F" THEN "T" ELSE "U"
SqlAnd(a, b) == IF a = "F" \/ b = "F" THEN "F"
                ELSE IF a = "T" /\ b = "T" THEN "T" ELSE "U"
SqlOr(a, b) == IF a = "T" \/ b = "T" THEN "T"
               ELSE IF a = "F" /\ b = "F" THEN "F" ELSE "U"
\* <> on two TEXT values
SqlNe(a, b) == IF a = NULL \/ b = NULL THEN "U" ELSE IF a # b THEN "T" ELSE "F"
\* = on two INTEGER NOT NULL values
SqlEqInt(a, b) == IF a = b THEN "T" ELSE "F"

\* Mutant: the date test without its "last_sent_date IS NULL OR" part.
DueWhereNoNullTest(row, today_str, hr) ==
    SqlAnd(SqlAnd(SqlAnd(SqlEqInt(row.subscribed, 1),
                         SqlNot(SqlIsNull(row.sign))),
                  SqlEqInt(row.notify_hour, hr)),
           SqlNe(row.last_sent_date, today_str))

\* Mutant: no test of last_sent_date at all.
DueWhereNoDateTest(row, today_str, hr) ==
    SqlAnd(SqlAnd(SqlEqInt(row.subscribed, 1), SqlNot(SqlIsNull(row.sign))),
           SqlEqInt(row.notify_hour, hr))

\* Mutant: no test of notify_hour.
DueWhereNoHourTest(row, today_str, hr) ==
    SqlAnd(SqlAnd(SqlEqInt(row.subscribed, 1), SqlNot(SqlIsNull(row.sign))),
           SqlOr(SqlIsNull(row.last_sent_date),
                 SqlNe(row.last_sent_date, today_str)))

\* The WHERE clause of list_due_users on one row.
DueWhere(row, today_str, hr) ==
    SqlAnd(SqlAnd(SqlAnd(SqlEqInt(row.subscribed, 1),
                         SqlNot(SqlIsNull(row.sign))),
                  SqlEqInt(row.notify_hour, hr)),
           SqlOr(SqlIsNull(row.last_sent_date),
                 SqlNe(row.last_sent_date, today_str)))

\* SELECT user_id, sign FROM users WHERE ...: the rows for which the WHERE
\* clause is true, in rowid order.
list_due_users(t, today_str, hr) ==
    LET ids == SelectSeq(OrderById(DOMAIN t),
                         LAMBDA v : DueWhere(t[v], today_str, hr) = "T")
    IN  [k \in 1..Len(ids) |-> [user_id |-> ids[k], sign |-> t[ids[k]].sign]]

\* The user ids of a list_due_users result.
DueIds(t, today_str, hr) ==
    LET rows == list_due_users(t, today_str, hr)
    IN  {rows[k].user_id : k \in DOMAIN rows}

(***************************************************************************)
(* The profile operations and the delivery marker as steps of the store.   *)
(***************************************************************************)
EnsureUser(u) ==
    /\ users' = ensure_user(users, u)
    /\ UNCHANGED <<today, hour, pushCount, failed, lastMarked>>
    /\ UNCHANGED <<registryVars, noteVars, extVars>>

SetSign(u, sign) ==
    /\ users' = set_sign(users, u, sign)
    /\ failed' = [failed EXCEPT ![u] = NULL]
    /\ UNCHANGED <<today, hour, pushCount, lastMarked>>
    /\ UNCHANGED <<registryVars, noteVars, extVars>>

SetNotifyHour(u, h) ==
    /\ users' = set_notify_hour(users, u, h)
    /\ failed' = [failed EXCEPT ![u] = NULL]
    /\ UNCHANGED <<today, hour, pushCount, lastMarked>>
    /\ UNCHANGED <<registryVars, noteVars, extVars>>

SetSubscribed(u, on) ==
    /\ users' = set_subscribed(users, u, on)
    /\ failed' = [failed EXCEPT ![u] = NULL]
    /\ UNCHANGED <<today, hour, pushCount, lastMarked>>
    /\ UNCHANGED <<registryVars, noteVars, extVars>>

MarkSentToday(u, today_str) ==
    /\ users' = mark_sent_today(users, u, today_str)
    /\ lastMarked' = IF u \in DOMAIN users
                     THEN [lastMarked EXCEPT ![u] = today_str]
                     ELSE lastMarked
    /\ failed' = [failed EXCEPT ![u] = NULL]
    /\ UNCHANGED <<today, hour, pushCount>>
    /\ UNCHANGED <<registryVars, noteVars, extVars>>


(***************************************************************************)
(* The scheduler.  It is not part of the sources: it is the caller that    *)
(* the contract of list_due_users / mark_sent_today describes.  A tick     *)
(* calls list_due_users(today, hour), pushes to every returned user and    *)
(* calls mark_sent_today(user, today) for each user whose push succeeded,  *)
(* all before the next tick starts.                                        *)
(***************************************************************************)
\* mark_sent_today for the rows of a due list whose push succeeded (ok).
RECURSIVE MarkDelivered(_, _, _, _)
MarkDelivered(t, rows, ok, today_str) ==
    IF rows = <<>>
    THEN t
    ELSE MarkDelivered(IF Head(rows).user_id \in ok
                       THEN mark_sent_today(t, Head(rows).user_id, today_str)
                       ELSE t,
                       Tail(rows), ok, today_str)

\* One more successful push, counted up to two.
CountPush(n) == IF n < 2 THEN n + 1 ELSE n

\* A tick at any hour of the current day; ok are the users whose push
\* succeeds.
Tick(hr) ==
    LET rows == list_due_users(users, Calendar[today], hr)
    IN  \E ok \in SUBSET {rows[k].user_id : k \in DOMAIN rows} :
        /\ users' = MarkDelivered(users, rows, ok, Calendar[today])
        /\ pushCount' = [u \in UserIds |->
                            IF u \in ok THEN CountPush(pushCount[u])
                                        ELSE pushCount[u]]
        /\ lastMarked' = [u \in UserIds |->
                            IF u \in ok THEN Calendar[today] ELSE lastMarked[u]]
        /\ UNCHANGED <<today, hour, failed>>
        /\ UNCHANGED <<registryVars, noteVars, extVars>>

\* Midnight: the clock moves to the next calendar day.
NextDay ==
    /\ today < NDays
    /\ today' = today + 1
    /\ pushCount' = [u \in UserIds |-> 0]
    /\ UNCHANGED <<users, hour, failed, lastMarked>>
    /\ UNCHANGED <<registryVars, noteVars, extVars>>

\* The scheduler invoked once per clock hour: the tick of the hour that
\* follows the previous tick's hour; ok are the users whose push succeeds.
HourlyTick ==
    LET rolls == (hour = MaxHour)
        d == IF rolls THEN today + 1 ELSE today
        hr == IF rolls THEN MinHour ELSE hour + 1
        rows == IF d <= NDays THEN list_due_users(users, Calendar[d], hr) ELSE <<>>
        ids == {rows[k].user_id : k \in DOMAIN rows}
    IN  \E ok \in SUBSET ids :
        /\ d <= NDays
        /\ today' = d
        /\ hour' = hr
        /\ users' = MarkDelivered(users, rows, ok, Calendar[d])
        /\ pushCount' = [u \in UserIds |->
                            IF u \in ok
                            THEN CountPush(IF rolls THEN 0 ELSE pushCount[u])
                            ELSE IF rolls THEN 0 ELSE pushCount[u]]
        /\ lastMarked' = [u \in UserIds |->
                            IF u \in ok THEN Calendar[d] ELSE lastMarked[u]]
        /\ failed' = [u \in UserIds |->
                            IF u \in ok THEN NULL
                            ELSE IF u \in ids THEN Calendar[d] ELSE failed[u]]
        /\ UNCHANGED <<registryVars, noteVars, extVars>>


(***************************************************************************)
(* Table notes: add_note and the /note_add handler.                        *)
(***************************************************************************)
\* str.strip(): the text without its leading and trailing white space.
RECURSIVE LStrip(_)
LStrip(text) ==
    IF text # <<>> /\ Head(text) \in Whitespace THEN LStrip(Tail(text)) ELSE text

RECURSIVE RStrip(_)
RStrip(text) ==
    IF text # <<>> /\ text[Len(text)] \in Whitespace
    THEN RStrip(SubSeq(text, 1, Len(text) - 1))
    ELSE text

Strip(text) == RStrip(LStrip(text))

\* Python values of type int | None.
NoneValue == [isNone |-> TRUE, int |-> 0]
IntValue(n) == [isNone |-> FALSE, int |-> n]

\* length(text) of SQLite: the number of characters before the first NUL
\* character of the text.
SqlLength(text) ==
    LET nuls == {k \in 1..Len(text) : text[k] = NulChar}
    IN  IF nuls = {} THEN Len(text) ELSE MinOf(nuls) - 1

\* CHECK(length(text) BETWEEN 1 AND 500)
CheckLength(text) == SqlLength(text) \in 1..MaxNoteLen

\* No update_note / delete_note call has been made.
NoEditCall ==
    [op |-> "none", user_id |-> 0, blank |-> FALSE, long |-> FALSE,
     foreign |-> FALSE, raised |-> FALSE, ok |-> FALSE]

\* Rows of notes holding the pair (user_id, text): UNIQUE(user_id, text).
NotesWith(t, user_id, text) ==
    {i \in DOMAIN t : t[i].user_id = user_id /\ t[i].text = text}

\* add_note on table t with sequence seq: the new table, the new sequence
\* and the returned value.
\*  - empty after strip: return None before any statement;
\*  - CHECK(length(text) BETWEEN 1 AND 500) fails: IntegrityError, caught,
\*    return None (length is SQLite's, which stops at a NUL character);
\*  - the pair is stored already: UNIQUE ... ON CONFLICT IGNORE skips the row
\*    without an error; the rowid taken for it is kept in sqlite_sequence and
\*    cur.lastrowid is the connection's last insert rowid, 0 on the fresh
\*    connection the call opened;
\*  - otherwise the row is stored under the next rowid, which is returned.
add_note(t, seq, user_id, raw) ==
    LET text == Strip(raw)
    IN  IF text = <<>>
        THEN [notes |-> t, seq |-> seq, ret |-> NoneValue]
        ELSE IF ~CheckLength(text)
        THEN [notes |-> t, seq |-> seq, ret |-> NoneValue]
        ELSE IF NotesWith(t, user_id, text) # {}
        THEN [notes |-> t, seq |-> seq + 1, ret |-> IntValue(0)]
        ELSE [notes |-> t @@ ((seq + 1) :> [user_id |-> user_id, text |-> text]),
              seq |-> seq + 1, ret |-> IntValue(seq + 1)]

\* db.add_note called directly.
AddNote(u, raw) ==
    LET r == add_note(notes, noteSeq, u, raw)
    IN  /\ noteSeq < MaxNoteSeq
        /\ notes' = r.notes
        /\ noteSeq' = r.seq
        /\ noteRet' = r.ret
        /\ noteCall' = [op |-> "add_note", user_id |-> u, text |-> Strip(raw),
                        existed |-> NotesWith(notes, u, Strip(raw)) # {}]
        /\ noteReply' = [kind |-> "none", id |-> 0]
        /\ editCall' = NoEditCall
        /\ UNCHANGED <<registryVars, dueVars, extVars>>

\* cmd_note_add: "/note_add <raw>".  A missing or blank argument gets the
\* usage reply; otherwise add_note is called and None gets the failure
\* reply, anything else "note #<id> added".
CmdNoteAdd(u, raw) ==
    /\ noteSeq < MaxNoteSeq
    /\ IF Strip(raw) = <<>>
       THEN /\ noteReply' = [kind |-> "usage", id |-> 0]
            /\ noteCall' = [op |-> "none", user_id |-> u, text |-> <<>>,
                            existed |-> FALSE]
            /\ noteRet' = NoneValue
            /\ UNCHANGED <<notes, noteSeq>>
       ELSE LET r == add_note(notes, noteSeq, u, Strip(raw))
            IN  /\ notes' = r.notes
                /\ noteSeq' = r.seq
                /\ noteRet' = r.ret
                /\ noteCall' = [op |-> "cmd_note_add", user_id |-> u,
                                text |-> Strip(raw),
                                existed |-> NotesWith(notes, u, Strip(raw)) # {}]
                /\ noteReply' = IF r.ret.isNone
                                THEN [kind |-> "failed", id |-> 0]
                                ELSE [kind |-> "added", id |-> r.ret.int]
    /\ editCall' = NoEditCall
    /\ UNCHANGED <<registryVars, dueVars, extVars>>

(***************************************************************************)
(* list_notes: the newest rows of a user, at most "limit" of them.         *)
(***************************************************************************)
\* limit = max(1, min(int(limit or 10), 50)).  "limit or 10" replaces a
\* falsy limit, which for an integer is 0, by the default.
ClampLimit(limit) ==
    LET given == IF limit = 0 THEN DefaultLimit ELSE limit
        hi == IF given < MaxLimit THEN given ELSE MaxLimit
    IN  IF hi > MinLimit THEN hi ELSE MinLimit

\* ORDER BY id DESC
OrderByIdDesc(S) ==
    LET asc == OrderById(S)
    IN  [k \in 1..Len(asc) |-> asc[Len(asc) + 1 - k]]

\* SELECT id, text, created_at FROM notes WHERE user_id = ?
\* ORDER BY id DESC LIMIT ?
list_notes(t, user_id, limit) ==
    LET ids == OrderByIdDesc({i \in DOMAIN t : t[i].user_id = user_id})
        n == IF Len(ids) < ClampLimit(limit) THEN Len(ids) ELSE ClampLimit(limit)
    IN  [k \in 1..n |-> [id |-> ids[k], text |-> t[ids[k]].text]]

\* db.list_notes called directly.
ListNotes(u, limit) ==
    /\ listRet' = [user_id |-> u, limit |-> limit,
                   rows |-> list_notes(notes, u, limit)]
    /\ UNCHANGED <<registryVars, dueVars, noteVars, searchRet>>
    /\ UNCHANGED <<personaVars, auditVars, profileVars, bootVars, handlerVars, callVars>>

(***************************************************************************)
(* update_note and delete_note: one UPDATE / DELETE restricted to          *)
(* (user_id, id).                                                          *)
(***************************************************************************)
\* What a call produced: a returned bool or a raised exception.
EditReturn(t, b) == [notes |-> t, raised |-> FALSE, ok |-> b]
EditRaise(t) == [notes |-> t, raised |-> TRUE, ok |-> FALSE]

\* The row the WHERE clause user_id = ? AND id = ? selects, if any.
OwnNote(t, user_id, note_id) ==
    note_id \in DOMAIN t /\ t[note_id].user_id = user_id

\* update_note on table t: the new table and the outcome.
\*  - empty after strip: return False before any statement;
\*  - no row of the user has the id: rowcount 0, return False;
\*  - CHECK(length(text) BETWEEN 1 AND 500) fails on the new text: the UPDATE
\*    raises IntegrityError, which nothing catches; the with-block rolls
\*    back and the exception leaves update_note;
\*  - another row holds (user_id, new text): UNIQUE ... ON CONFLICT IGNORE
\*    skips the row, rowcount 0, return False;
\*  - otherwise the text of the row is replaced, return True.
update_note_any_user(t, user_id, note_id, raw) ==
    LET new_text == Strip(raw)
    IN  IF new_text = <<>> THEN EditReturn(t, FALSE)
        ELSE IF note_id \notin DOMAIN t THEN EditReturn(t, FALSE)
        ELSE IF ~CheckLength(new_text) THEN EditRaise(t)
        ELSE IF NotesWith(t, t[note_id].user_id, new_text) \ {note_id} # {}
        THEN EditReturn(t, FALSE)
        ELSE EditReturn([t EXCEPT ![note_id].text = new_text], TRUE)

update_note(t, user_id, note_id, raw) ==
    LET new_text == Strip(raw)
    IN  IF new_text = <<>> THEN EditReturn(t, FALSE)
        ELSE IF ~OwnNote(t, user_id, note_id) THEN EditReturn(t, FALSE)
        ELSE IF ~CheckLength(new_text) THEN EditRaise(t)
        ELSE IF NotesWith(t, user_id, new_text) \ {note_id} # {}
        THEN EditReturn(t, FALSE)
        ELSE EditReturn([t EXCEPT ![note_id].text = new_text], TRUE)

\* delete_note on table t: DELETE FROM notes WHERE user_id = ? AND id = ?,
\* return rowcount > 0.
delete_note(t, user_id, note_id) ==
    IF OwnNote(t, user_id, note_id)
    THEN EditReturn([i \in DOMAIN t \ {note_id} |-> t[i]], TRUE)
    ELSE EditReturn(t, FALSE)

\* The history record of an update_note / delete_note call: who called,
\* whether the text was empty after strip or longer than MaxNoteLen,
\* whether the id was that of a note of another user, and the outcome.
EditCall(name, u, note_id, text, r) ==
    [op |-> name, user_id |-> u,
     blank |-> text = <<>>, long |-> Len(text) > MaxNoteLen,
     foreign |-> note_id \in DOMAIN notes /\ notes[note_id].user_id # u,
     raised |-> r.raised, ok |-> r.ok]

\* db.update_note called directly.
UpdateNote(u, note_id, raw) ==
    LET r == update_note(notes, u, note_id, raw)
    IN  /\ notes' = r.notes
        /\ editCall' = EditCall("update_note", u, note_id, Strip(raw), r)
        /\ noteCall' = [op |-> "none", user_id |-> 0, text |-> <<>>,
                        existed |-> FALSE]
        /\ noteRet' = NoneValue
        /\ noteReply' = [kind |-> "none", id |-> 0]
        /\ UNCHANGED <<noteSeq, registryVars, dueVars, extVars>>

\* db.delete_note called directly.
DeleteNote(u, note_id) ==
    LET r == delete_note(notes, u, note_id)
    IN  /\ notes' = r.notes
        /\ editCall' = EditCall("delete_note", u, note_id, <<"a">>, r)
        /\ noteCall' = [op |-> "none", user_id |-> 0, text |-> <<>>,
                        existed |-> FALSE]
        /\ noteRet' = NoneValue
        /\ noteReply' = [kind |-> "none", id |-> 0]
        /\ UNCHANGED <<noteSeq, registryVars, dueVars, extVars>>

\* count_notes: SELECT COUNT(*) FROM notes WHERE user_id = ?
count_notes(t, user_id) ==
    Cardinality({i \in DOMAIN t : t[i].user_id = user_id})

(***************************************************************************)
(* search_notes: the rows of a user whose text matches                     *)
(* LIKE '%' || needle || '%', newest first, at most "limit" of them.       *)
(***************************************************************************)
\* LIKE folds the case of ASCII letters only.
LikeFold(c) ==
    IF c = "A" THEN "a" ELSE IF c = "B" THEN "b" ELSE c

\* X LIKE P from position j of the text t and position i of the pattern p:
\* '%' matches any run of characters, '_' matches any one character, every
\* other character matches itself up to the case of ASCII letters.
RECURSIVE LikeFrom(_, _, _, _)
LikeFrom(p, i, t, j) ==
    IF i > Len(p) THEN j > Len(t)
    ELSE IF p[i] = "%"
    THEN LikeFrom(p, i + 1, t, j) \/ (j <= Len(t) /\ LikeFrom(p, i, t, j + 1))
    ELSE /\ j <= Len(t)
         /\ (p[i] = "_" \/ LikeFold(p[i]) = LikeFold(t[j]))
         /\ LikeFrom(p, i + 1, t, j + 1)

\* LIKE reads its operands as C strings: up to the first NUL character.
Like(text, pattern) ==
    LikeFrom(SubSeq(pattern, 1, SqlLength(pattern)), 1,
             SubSeq(text, 1, SqlLength(text)), 1)

\* search_notes: a needle that is empty after strip returns [] before any
\* statement; the limit is clamped as in list_notes.
search_notes(t, user_id, raw, limit) ==
    LET needle == Strip(raw)
        hits == {i \in DOMAIN t : /\ t[i].user_id = user_id
                                   /\ Like(t[i].text, <<"%">> \o needle \o <<"%">>)}
        ids == OrderByIdDesc(hits)
        n == IF Len(ids) < ClampLimit(limit) THEN Len(ids) ELSE ClampLimit(limit)
    IN  IF needle = <<>> THEN <<>>
        ELSE [k \in 1..n |-> [id |-> ids[k], text |-> t[ids[k]].text]]

\* db.search_notes called directly.
SearchNotes(u, raw, limit) ==
    /\ searchRet' = [user_id |-> u, needle |-> Strip(raw), limit |-> limit,
                     rows |-> search_notes(notes, u, raw, limit)]
    /\ UNCHANGED <<registryVars, dueVars, noteVars, listRet>>
    /\ UNCHANGED <<personaVars, auditVars, profileVars, bootVars, handlerVars, callVars>>

\* The notes tables the searches run on: the first rowids hold pairwise
\* different (user_id, text) pairs.
SearchTables ==
    UNION {{t \in [1..n -> [user_id : SearchUserIds, text : SearchTexts]] :
              \A i, j \in 1..n : t[i] = t[j] => i = j} : n \in 0..MaxSearchNotes}

(***************************************************************************)
(* get_active_model, the fallback for a registry without an active row:    *)
(* the second SELECT, the UPDATE and the commit of the with-block.         *)
(***************************************************************************)
\* Mutant: ORDER BY id DESC LIMIT 1, the highest id.
LowestIdDesc(t) == CHOOSE x \in DOMAIN t : \A y \in DOMAIN t : y <= x

\* SELECT id,key,label FROM models ORDER BY id LIMIT 1
LowestId(t) == MinOf(DOMAIN t)

\* UPDATE models SET active=CASE WHEN id=? THEN 1 ELSE 0 END
ActivateOnly(t, id) ==
    [i \in DOMAIN t |-> [t[i] EXCEPT !.active = IF i = id THEN 1 ELSE 0]]

\* The second SELECT reads the committed rows; an empty registry raises
\* RuntimeError.
GamLowest(p) ==
    /\ pc[p] = "gam_lowest"
    /\ IF DOMAIN models = {}
       THEN /\ ret' = [ret EXCEPT ![p] = Raised("RuntimeError")]
            /\ pc' = [pc EXCEPT ![p] = "done"]
       ELSE /\ pc' = [pc EXCEPT ![p] = "gam_update"]
            /\ ret' = ret
    /\ midRead' = IF SwitchHalfDone THEN midRead \cup {p} ELSE midRead \ {p}
    /\ UNCHANGED <<models, wlock, wtxn, op, arg, lastSwitch>>
    /\ UNCHANGED <<dueVars, noteVars, extVars>>

\* The UPDATE opens the connection's transaction and takes the write lock.
\* The rows are written in rowid order and the partial unique index is
\* checked row by row, so a row other than the chosen one that is active
\* stops the statement with IntegrityError and the with-block rolls back.
GamUpdate(p) ==
    /\ pc[p] = "gam_update"
    /\ wlock = NoLock
    /\ IF ActiveIds(models) \ {LowestId(models)} = {}
       THEN /\ wlock' = p
            /\ wtxn' = ActivateOnly(models, LowestId(models))
            /\ pc' = [pc EXCEPT ![p] = "gam_commit"]
            /\ ret' = ret
       ELSE /\ ret' = [ret EXCEPT ![p] = Raised("IntegrityError")]
            /\ pc' = [pc EXCEPT ![p] = "done"]
            /\ UNCHANGED <<wlock, wtxn>>
    /\ UNCHANGED <<models, op, arg, lastSwitch, midRead>>
    /\ UNCHANGED <<dueVars, noteVars, extVars>>

\* The UPDATE while another connection holds the lock: after busy_timeout
\* the statement fails with "database is locked".
GamBusy(p) ==
    /\ pc[p] = "gam_update"
    /\ wlock # NoLock
    /\ ret' = [ret EXCEPT ![p] = Raised("OperationalError")]
    /\ pc' = [pc EXCEPT ![p] = "done"]
    /\ UNCHANGED <<models, wlock, wtxn, op, arg, lastSwitch, midRead>>
    /\ UNCHANGED <<dueVars, noteVars, extVars>>

\* The return statement leaves the with-block, which commits.
GamCommit(p) ==
    /\ pc[p] = "gam_commit"
    /\ models' = wtxn
    /\ wlock' = NoLock
    /\ wtxn' = NULL
    /\ ret' = [ret EXCEPT ![p] = Returned(ModelDict(wtxn, LowestId(wtxn)))]
    /\ pc' = [pc EXCEPT ![p] = "done"]
    /\ UNCHANGED <<op, arg, lastSwitch, midRead>>
    /\ UNCHANGED <<dueVars, noteVars, extVars>>

\* get_active_model run from its first to its last statement with no other
\* connection in between: the new table and the outcome.
get_active_model(t) ==
    IF ActiveIds(t) # {}
    THEN [models |-> t, out |-> Returned(ModelDict(t, MinOf(ActiveIds(t))))]
    ELSE IF DOMAIN t = {}
    THEN [models |-> t, out |-> Raised("RuntimeError")]
    ELSE [models |-> ActivateOnly(t, LowestId(t)),
          out |-> Returned(ModelDict(t, LowestId(t)))]

\* Registries a store can hold with no active row: any rows of the seed,
\* none of them active.
InactiveRegistries ==
    {[i \in S |-> [SeedModels[i] EXCEPT !.active = 0]] :
        S \in SUBSET DOMAIN SeedModels}

(***************************************************************************)
(* ensure_user and add_note statement by statement, beside the callers of  *)
(* the registry.  Each opens its own connection; the INSERT opens the      *)
(* connection's transaction and takes the write lock, the end of the       *)
(* with-block commits and releases it.                                     *)
(***************************************************************************)
\* The text of the notes added beside the registry calls.
LiveNoteText == <<"a">>

\* Callers whose add_note call has not committed yet.
AddNotePending == {q \in Procs : pc[q] \in {"an_insert", "an_commit"}}

CallEnsureUser(p, u) ==
    /\ pc[p] = "idle"
    /\ pc' = [pc EXCEPT ![p] = "eu_insert"]
    /\ op' = [op EXCEPT ![p] = "ensure_user"]
    /\ arg' = [arg EXCEPT ![p] = u]
    /\ ret' = [ret EXCEPT ![p] = NoRet]
    /\ UNCHANGED <<models, wlock, wtxn, lastSwitch, midRead>>
    /\ UNCHANGED <<dueVars, noteVars, extVars>>

\* INSERT OR IGNORE INTO users ...: the statement takes the write lock.
EnsureUserInsert(p) ==
    /\ pc[p] = "eu_insert"
    /\ wlock = NoLock
    /\ wlock' = p
    /\ pc' = [pc EXCEPT ![p] = "eu_commit"]
    /\ UNCHANGED <<models, wtxn, op, arg, ret, lastSwitch, midRead>>
    /\ UNCHANGED <<dueVars, noteVars, extVars>>

\* The INSERT while another connection holds the lock: after busy_timeout
\* the statement fails with "database is locked", which leaves ensure_user.
EnsureUserBusy(p) ==
    /\ pc[p] = "eu_insert"
    /\ wlock # NoLock
    /\ ret' = [ret EXCEPT ![p] = Raised("OperationalError")]
    /\ pc' = [pc EXCEPT ![p] = "done"]
    /\ UNCHANGED <<models, wlock, wtxn, op, arg, lastSwitch, midRead>>
    /\ UNCHANGED <<dueVars, noteVars, extVars>>

\* The with-block ends: commit, the lock is released, None is returned.
EnsureUserCommit(p) ==
    /\ pc[p] = "eu_commit"
    /\ users' = ensure_user(users, arg[p])
    /\ wlock' = NoLock
    /\ ret' = [ret EXCEPT ![p] = Returned(NULL)]
    /\ pc' = [pc EXCEPT ![p] = "done"]
    /\ UNCHANGED <<models, wtxn, op, arg, lastSwitch, midRead>>
    /\ UNCHANGED <<today, hour, pushCount, failed, lastMarked>>
    /\ UNCHANGED <<noteVars, extVars>>

CallAddNote(p, u) ==
    /\ pc[p] = "idle"
    /\ noteSeq + Cardinality(AddNotePending) < MaxEditSeq
    /\ pc' = [pc EXCEPT ![p] = "an_insert"]
    /\ op' = [op EXCEPT ![p] = "add_note"]
    /\ arg' = [arg EXCEPT ![p] = u]
    /\ ret' = [ret EXCEPT ![p] = NoRet]
    /\ UNCHANGED <<models, wlock, wtxn, lastSwitch, midRead>>
    /\ UNCHANGED <<dueVars, noteVars, extVars>>

\* INSERT INTO notes(user_id, text) ...: the statement takes the write
\* lock; a conflict on UNIQUE(user_id, text) skips the row and the
\* transaction stays open until the with-block ends.
AddNoteInsert(p) ==
    /\ pc[p] = "an_insert"
    /\ wlock = NoLock
    /\ wlock' = p
    /\ pc' = [pc EXCEPT ![p] = "an_commit"]
    /\ UNCHANGED <<models, wtxn, op, arg, ret, lastSwitch, midRead>>
    /\ UNCHANGED <<dueVars, noteVars, extVars>>

\* The INSERT while another connection holds the lock: OperationalError is
\* not the IntegrityError add_note catches, it leaves the function.
AddNoteBusy(p) ==
    /\ pc[p] = "an_insert"
    /\ wlock # NoLock
    /\ ret' = [ret EXCEPT ![p] = Raised("OperationalError")]
    /\ pc' = [pc EXCEPT ![p] = "done"]
    /\ UNCHANGED <<models, wlock, wtxn, op, arg, lastSwitch, midRead>>
    /\ UNCHANGED <<dueVars, noteVars, extVars>>

\* return cur.lastrowid leaves the with-block: commit, the lock is
\* released.
AddNoteCommit(p) ==
    LET r == add_note(notes, noteSeq, arg[p], LiveNoteText)
    IN  /\ pc[p] = "an_commit"
        /\ notes' = r.notes
        /\ noteSeq' = r.seq
        /\ wlock' = NoLock
        /\ ret' = [ret EXCEPT ![p] = Returned(r.ret)]
        /\ pc' = [pc EXCEPT ![p] = "done"]
        /\ UNCHANGED <<models, wtxn, op, arg, lastSwitch, midRead>>
        /\ UNCHANGED <<noteCall, noteRet, noteReply, editCall>>
        /\ UNCHANGED <<dueVars, extVars>>

(***************************************************************************)
(* The audit log (write_service_call, write_error_log) and chat_once of    *)
(* src/openrouter_client.py.                                               *)
(***************************************************************************)
\* What the environment does to one chat_once call: the API key is missing
\* (no request is sent), the request times out, or the provider answers
\* with a status and a body that has or has not the expected structure.
ProviderAnswers ==
    {[kind |-> "no_api_key", status |-> 0, wellformed |-> FALSE],
     [kind |-> "timeout", status |-> 0, wellformed |-> FALSE],
     [kind |-> "response", status |-> 200, wellformed |-> TRUE],
     [kind |-> "response", status |-> 200, wellformed |-> FALSE],
     [kind |-> "response", status |-> 429, wellformed |-> FALSE],
     [kind |-> "response", status |-> 500, wellformed |-> FALSE]}

\* The fate of one audit insert: it succeeds, or the store is locked
\* (OperationalError after busy_timeout), cannot be opened, or rejects the
\* row (IntegrityError).
AuditOutcomes == {"ok", "locked", "unavailable", "constraint"}

\* Outcomes of chat_once and of the write_* functions.
ChatReturn == [kind |-> "return", error |-> "none", status |-> 0]
ChatRaise(e, status) == [kind |-> "raise", error |-> e, status |-> status]

\* Mutant: no try/except around the insert, a failure reaches the caller.
write_service_call_unguarded(log, row, audit) ==
    [log |-> IF audit = "ok" THEN Append(log, row) ELSE log,
     raised |-> audit # "ok"]

\* write_service_call: connect, INSERT, commit, all inside
\* try ... except Exception, which logs and returns.
write_service_call(log, row, audit) ==
    [log |-> IF audit = "ok" THEN Append(log, row) ELSE log,
     raised |-> FALSE]

\* write_error_log: the same shape on table error_log.
write_error_log(log, row, audit) ==
    [log |-> IF audit = "ok" THEN Append(log, row) ELSE log,
     raised |-> FALSE]

\* The except branch of chat_once: log the failure, then raise
\* OpenRouterError(500).  An exception of write_service_call itself would
\* leave the function instead.
ChatOnceExcept(log, audit) ==
    LET w == write_service_call(log,
                 [service |-> "openrouter", response |-> NULL,
                  status_code |-> NoneValue, error |-> "repr(e)"], audit)
    IN  IF w.raised
        THEN [log |-> w.log, out |-> ChatRaise("Exception", 0)]
        ELSE [log |-> w.log, out |-> ChatRaise("OpenRouterError", 500)]

\* chat_once on a service_call_log "log": the new log and the outcome.
\*  - no API key: OpenRouterError(401) before any request;
\*  - requests.post raises on a timeout: the exception leaves the function;
\*  - a status outside 2xx: OpenRouterError(status), raised before the try;
\*  - inside the try: parse the body, take the text, write the audit row;
\*    any exception there goes to the except branch.
chat_once(log, answer, audit) ==
    IF answer.kind = "no_api_key"
    THEN [log |-> log, out |-> ChatRaise("OpenRouterError", 401)]
    ELSE IF answer.kind = "timeout"
    THEN [log |-> log, out |-> ChatRaise("Timeout", 0)]
    ELSE IF answer.status \div 100 # 2
    THEN [log |-> log, out |-> ChatRaise("OpenRouterError", answer.status)]
    ELSE IF ~answer.wellformed
    THEN ChatOnceExcept(log, audit)
    ELSE LET w == write_service_call(log,
                      [service |-> "openrouter", response |-> "r.text",
                       status_code |-> IntValue(answer.status),
                       error |-> NULL], audit)
         IN  IF w.raised
             THEN ChatOnceExcept(w.log, audit)
             ELSE [log |-> w.log, out |-> ChatReturn]

NoAnswer == [kind |-> "none", status |-> 0, wellformed |-> FALSE]
NoAuditCall == [op |-> "none", answer |-> NoAnswer, audit |-> "ok",
                out |-> ChatReturn, added |-> 0]

\* chat_once called by a handler.
ChatOnce(answer, audit) ==
    LET r == chat_once(service_call_log, answer, audit)
    IN  /\ Len(service_call_log) < MaxLogRows
        /\ service_call_log' = r.log
        /\ auditCall' = [op |-> "chat_once", answer |-> answer, audit |-> audit,
                         out |-> r.out,
                         added |-> Len(r.log) - Len(service_call_log)]
        /\ UNCHANGED error_log
        /\ UNCHANGED <<registryVars, dueVars, noteVars>>
        /\ UNCHANGED <<queryVars, personaVars, profileVars, bootVars, handlerVars, callVars>>

\* write_service_call called directly.
WriteServiceCall(audit) ==
    LET w == write_service_call(service_call_log,
                 [service |-> "openrouter", response |-> NULL,
                  status_code |-> NoneValue, error |-> NULL], audit)
    IN  /\ Len(service_call_log) < MaxLogRows
        /\ service_call_log' = w.log
        /\ auditCall' = [op |-> "write_service_call", answer |-> NoAnswer,
                         audit |-> audit,
                         out |-> IF w.raised THEN ChatRaise("Exception", 0)
                                             ELSE ChatReturn,
                         added |-> Len(w.log) - Len(service_call_log)]
        /\ UNCHANGED error_log
        /\ UNCHANGED <<registryVars, dueVars, noteVars>>
        /\ UNCHANGED <<queryVars, personaVars, profileVars, bootVars, handlerVars, callVars>>

\* write_error_log called by a handler that caught an error.
WriteErrorLog(audit) ==
    LET w == write_error_log(error_log,
                 [level |-> "ERROR", logger |-> "main", message |-> "str(e)"],
                 audit)
    IN  /\ Len(error_log) < MaxLogRows
        /\ error_log' = w.log
        /\ auditCall' = [op |-> "write_error_log", answer |-> NoAnswer,
                         audit |-> audit,
                         out |-> IF w.raised THEN ChatRaise("Exception", 0)
                                             ELSE ChatReturn,
                         added |-> Len(w.log) - Len(error_log)]
        /\ UNCHANGED service_call_log
        /\ UNCHANGED <<registryVars, dueVars, noteVars>>
        /\ UNCHANGED <<queryVars, personaVars, profileVars, bootVars, handlerVars, callVars>>

(***************************************************************************)
(* The persona catalog (table characters) and the per-user assignment      *)
(* (table user_character).  Every function is a sequence of statements in  *)
(* autocommit mode; the catalog is written by init_db only.                *)
(***************************************************************************)
\* init_db: the seed of table characters (INSERT OR IGNORE ... VALUES).
\* Names are transliterated and each prompt is written as a short tag.
SeedCharacterNames ==
    <<"Yoda", "Darth Vader", "Mister Spock", "Tony Stark", "Sherlock Holmes",
      "Captain Jack Sparrow", "Gandalf", "Winnie-the-Pooh", "Gollum", "Rick",
      "Bender">>

SeedCharacters ==
    [i \in DOMAIN SeedCharacterNames |->
        [name |-> SeedCharacterNames[i], prompt |-> <<"prompt", i>>]]

\* Catalogs a store can hold: any rows of the seed with ids up to
\* MaxCharacterId, including none.
Catalog(S) == [i \in S |-> SeedCharacters[i]]
Catalogs == {Catalog(S) : S \in SUBSET (1..MaxCharacterId)}

\* Assignment tables that earlier set_user_character calls can have left
\* on catalog cat: any set of users, user u on the u-th row of the catalog
\* (counted cyclically).
AssignmentInputs(cat) ==
    IF DOMAIN cat = {}
    THEN {<<>>}
    ELSE LET ids == OrderById(DOMAIN cat)
         IN  {[u \in S |-> ids[((u - 1) % Len(ids)) + 1]] : S \in SUBSET UserIds}

\* character_id arguments: the ids up to MaxCharacterId and one id that is
\* in no catalog.
CharacterIdInputs == 1..(MaxCharacterId + 1)

\* The dict built from a row of characters.
CharacterDict(t, i) == [id |-> i, name |-> t[i].name, prompt |-> t[i].prompt]
NoCharacter == [id |-> 0, name |-> "", prompt |-> <<>>]

\* Outcomes of the persona functions and replies of the /ask_random handler.
PersonaReturn(c) == [kind |-> "return", error |-> "none", character |-> c]
PersonaRaise(e) == [kind |-> "raise", error |-> e, character |-> NoCharacter]
PersonaReply(r) == [kind |-> "reply", error |-> r, character |-> NoCharacter]
NoPersonaCall == [op |-> "none", user_id |-> 0, character_id |-> 0,
                  prev |-> 0, out |-> PersonaReturn(NoCharacter)]

\* get_character_by_id: SELECT id,name,prompt FROM characters WHERE id=?;
\* the dict, or None (found = FALSE).
get_character_by_id(cat, character_id) ==
    IF character_id \in DOMAIN cat
    THEN [found |-> TRUE, character |-> CharacterDict(cat, character_id)]
    ELSE [found |-> FALSE, character |-> NoCharacter]

\* Mutant: the upsert runs without the catalog check.
set_user_character_unchecked(cat, uc, user_id, character_id) ==
    [user_character |-> (user_id :> character_id) @@ uc,
     out |-> PersonaReturn(get_character_by_id(cat, character_id).character)]

\* Mutant: INSERT OR IGNORE, which keeps an existing assignment.
set_user_character_insert_ignore(cat, uc, user_id, character_id) ==
    IF ~get_character_by_id(cat, character_id).found
    THEN [user_character |-> uc, out |-> PersonaRaise("ValueError")]
    ELSE [user_character |-> uc @@ (user_id :> character_id),
          out |-> PersonaReturn(get_character_by_id(cat, character_id).character)]

\* set_user_character: ValueError for an id that is not in the catalog,
\* otherwise INSERT ... ON CONFLICT(telegram_user_id) DO UPDATE and the
\* character is returned.
set_user_character(cat, uc, user_id, character_id) ==
    IF ~get_character_by_id(cat, character_id).found
    THEN [user_character |-> uc, out |-> PersonaRaise("ValueError")]
    ELSE [user_character |-> (user_id :> character_id) @@ uc,
          out |-> PersonaReturn(get_character_by_id(cat, character_id).character)]

\* Mutant: without the third SELECT (ORDER BY id LIMIT 1).
get_user_character_default_only(cat, uc, user_id) ==
    IF user_id \in DOMAIN uc /\ uc[user_id] \in DOMAIN cat
    THEN PersonaReturn(CharacterDict(cat, uc[user_id]))
    ELSE IF DefaultCharacterId \in DOMAIN cat
    THEN PersonaReturn(CharacterDict(cat, DefaultCharacterId))
    ELSE PersonaRaise("RuntimeError")

\* get_user_character: the assigned character (user_character JOIN
\* characters), else the row with id=1, else the row with the lowest id,
\* else RuntimeError.  Three SELECTs, no write.
get_user_character(cat, uc, user_id) ==
    IF user_id \in DOMAIN uc /\ uc[user_id] \in DOMAIN cat
    THEN PersonaReturn(CharacterDict(cat, uc[user_id]))
    ELSE IF DefaultCharacterId \in DOMAIN cat
    THEN PersonaReturn(CharacterDict(cat, DefaultCharacterId))
    ELSE IF DOMAIN cat # {}
    THEN PersonaReturn(CharacterDict(cat, MinOf(DOMAIN cat)))
    ELSE PersonaRaise("RuntimeError")

\* The character_id assigned to user_id, 0 when there is no row.
AssignedId(uc, user_id) == IF user_id \in DOMAIN uc THEN uc[user_id] ELSE 0

SetUserCharacter(u, c) ==
    LET r == set_user_character(characters, user_character, u, c)
    IN  /\ user_character' = r.user_character
        /\ personaCall' = [op |-> "set_user_character", user_id |-> u,
                           character_id |-> c,
                           prev |-> AssignedId(user_character, u),
                           out |-> r.out]
        /\ UNCHANGED characters
        /\ UNCHANGED <<registryVars, dueVars, noteVars>>
        /\ UNCHANGED <<queryVars, auditVars, profileVars, bootVars, handlerVars, callVars>>

GetUserCharacter(u) ==
    /\ personaCall' = [op |-> "get_user_character", user_id |-> u,
                       character_id |-> 0,
                       prev |-> AssignedId(user_character, u),
                       out |-> get_user_character(characters, user_character, u)]
    /\ UNCHANGED <<characters, user_character>>
    /\ UNCHANGED <<registryVars, dueVars, noteVars>>
    /\ UNCHANGED <<queryVars, auditVars, profileVars, bootVars, handlerVars, callVars>>

\* Mutant: the handler stores its random choice as the user's assignment.
CmdAskRandomSaving(u, blank, answer, audit) ==
    LET cands == IF DOMAIN characters = {} THEN {0} ELSE DOMAIN characters
        g == get_active_model(models)
        r == chat_once(service_call_log, answer, audit)
    IN  \E chosen \in cands :
        LET reply(k) == [op |-> "cmd_ask_random", user_id |-> u,
                         character_id |-> 0,
                         prev |-> AssignedId(user_character, u),
                         out |-> PersonaReply(k)]
        IN  /\ Len(service_call_log) < MaxLogRows
            /\ IF blank
               THEN /\ personaCall' = reply("usage")
                    /\ UNCHANGED <<models, service_call_log, auditCall>>
                    /\ UNCHANGED user_character
               ELSE IF DOMAIN characters = {}
               THEN /\ personaCall' = reply("empty_catalog")
                    /\ UNCHANGED <<models, service_call_log, auditCall>>
                    /\ UNCHANGED user_character
               ELSE IF g.out.kind = "raise"
               THEN /\ personaCall' = reply("no_reply")
                    /\ models' = g.models
                    /\ UNCHANGED <<service_call_log, auditCall>>
                    /\ user_character' = (u :> chosen) @@ user_character
               ELSE /\ models' = g.models
                    /\ service_call_log' = r.log
                    /\ auditCall' = [op |-> "chat_once", answer |-> answer,
                                     audit |-> audit, out |-> r.out,
                                     added |-> Len(r.log) - Len(service_call_log)]
                    /\ personaCall' =
                          reply(IF r.out.kind = "return" THEN "answer"
                                ELSE IF r.out.error = "OpenRouterError"
                                THEN "error" ELSE "unexpected")
                    /\ user_character' = (u :> chosen) @@ user_character
            /\ UNCHANGED <<characters, error_log>>
            /\ UNCHANGED <<wlock, wtxn, pc, op, arg, ret, lastSwitch, midRead>>
            /\ UNCHANGED <<dueVars, noteVars, queryVars, profileVars, bootVars, handlerVars, callVars>>

\* cmd_ask_random: "/ask_random <q>".  A blank question gets the usage
\* reply and an empty catalog its own reply.  Otherwise random.choice picks
\* a row of list_characters(), get_character_by_id reads it,
\* get_active_model supplies the model key (an exception there leaves the
\* handler) and chat_once asks the provider: its text is the reply, an
\* OpenRouterError the error reply, any other exception the generic reply.
\* No statement of the handler touches user_character.
CmdAskRandom(u, blank, answer, audit) ==
    LET cands == IF DOMAIN characters = {} THEN {0} ELSE DOMAIN characters
        g == get_active_model(models)
        r == chat_once(service_call_log, answer, audit)
    IN  \E chosen \in cands :
        LET reply(k) == [op |-> "cmd_ask_random", user_id |-> u,
                         character_id |-> 0,
                         prev |-> AssignedId(user_character, u),
                         out |-> PersonaReply(k)]
        IN  /\ Len(service_call_log) < MaxLogRows
            /\ IF blank
               THEN /\ personaCall' = reply("usage")
                    /\ UNCHANGED <<models, service_call_log, auditCall>>
                    /\ UNCHANGED user_character
               ELSE IF DOMAIN characters = {}
               THEN /\ personaCall' = reply("empty_catalog")
                    /\ UNCHANGED <<models, service_call_log, auditCall>>
                    /\ UNCHANGED user_character
               ELSE IF g.out.kind = "raise"
               THEN /\ personaCall' = reply("no_reply")
                    /\ models' = g.models
                    /\ UNCHANGED <<service_call_log, auditCall>>
                    /\ UNCHANGED user_character
               ELSE /\ models' = g.models
                    /\ service_call_log' = r.log
                    /\ auditCall' = [op |-> "chat_once", answer |-> answer,
                                     audit |-> audit, out |-> r.out,
                                     added |-> Len(r.log) - Len(service_call_log)]
                    /\ personaCall' =
                          reply(IF r.out.kind = "return" THEN "answer"
                                ELSE IF r.out.error = "OpenRouterError"
                                THEN "error" ELSE "unexpected")
                    /\ UNCHANGED user_character
            /\ UNCHANGED <<characters, error_log>>
            /\ UNCHANGED <<wlock, wtxn, pc, op, arg, ret, lastSwitch, midRead>>
            /\ UNCHANGED <<dueVars, noteVars, queryVars, profileVars, bootVars, handlerVars, callVars>>

(***************************************************************************)
(* cmd_ask of src/main.py: the "/ask <question>" handler.                  *)
(***************************************************************************)
NoAskCall == [op |-> "none", user_id |-> 0, called |-> FALSE,
              failure |-> "none", err_audit |-> "ok", reply |-> "none",
              raised |-> "none", errors_added |-> 0]

\* The record of one handled /ask update.
AskCall(u, called, failure, err_audit, reply, raised, added) ==
    [op |-> "cmd_ask", user_id |-> u, called |-> called, failure |-> failure,
     err_audit |-> err_audit, reply |-> reply, raised |-> raised,
     errors_added |-> added]

\* except OpenRouterError as e: write one error_log row with str(e), send
\* the error reply, return.
AskOpenRouterError(log, u, err_audit) ==
    [log |-> write_error_log(log,
                 [level |-> "ERROR", message |-> "str(e)", user_id |-> u,
                  command |-> "/ask"], err_audit).log,
     reply |-> "error", raised |-> "none"]

\* except Exception: the clause binds no name, and the arguments of
\* write_error_log hold f"... {e}".  e is a local of cmd_ask that is only
\* bound inside the OpenRouterError clause, so evaluating the f-string
\* raises UnboundLocalError before write_error_log is called and before
\* the generic reply is sent.
AskUnexpected(log, u, err_audit) ==
    [log |-> log, reply |-> "none", raised |-> "UnboundLocalError"]

\* cmd_ask.  A blank question gets the usage reply.  _build_messages reads
\* the user's character and get_active_model the model key, both before
\* the try: an exception there leaves the handler.  chat_once runs inside
\* the try; its text is the reply, its exceptions go to the two except
\* clauses.
CmdAsk(u, blank, answer, audit, err_audit) ==
    LET p == get_user_character(characters, user_character, u)
        g == get_active_model(models)
        r == chat_once(service_call_log, answer, audit)
        h == IF r.out.error = "OpenRouterError"
             THEN AskOpenRouterError(error_log, u, err_audit)
             ELSE AskUnexpected(error_log, u, err_audit)
    IN  /\ Len(service_call_log) < MaxLogRows
        /\ Len(error_log) < MaxLogRows
        /\ IF blank
           THEN /\ askCall' = AskCall(u, FALSE, "none", err_audit, "usage",
                                      "none", 0)
                /\ UNCHANGED <<models, service_call_log, error_log, auditCall>>
           ELSE IF p.kind = "raise"
           THEN /\ askCall' = AskCall(u, FALSE, "none", err_audit, "none",
                                      p.error, 0)
                /\ UNCHANGED <<models, service_call_log, error_log, auditCall>>
           ELSE IF g.out.kind = "raise"
           THEN /\ askCall' = AskCall(u, FALSE, "none", err_audit, "none",
                                      g.out.value, 0)
                /\ models' = g.models
                /\ UNCHANGED <<service_call_log, error_log, auditCall>>
           ELSE /\ models' = g.models
                /\ service_call_log' = r.log
                /\ auditCall' = [op |-> "chat_once", answer |-> answer,
                                 audit |-> audit, out |-> r.out,
                                 added |-> Len(r.log) - Len(service_call_log)]
                /\ IF r.out.kind = "return"
                   THEN /\ askCall' = AskCall(u, TRUE, "none", err_audit,
                                              "answer", "none", 0)
                        /\ UNCHANGED error_log
                   ELSE /\ error_log' = h.log
                        /\ askCall' = AskCall(u, TRUE, r.out.error, err_audit,
                                              h.reply, h.raised,
                                              Len(h.log) - Len(error_log))
        /\ UNCHANGED <<characters, user_character, personaCall>>
        /\ UNCHANGED <<wlock, wtxn, pc, op, arg, ret, lastSwitch, midRead>>
        /\ UNCHANGED <<dueVars, noteVars, queryVars, profileVars, bootVars, callVars>>

(***************************************************************************)
(* ensure_user observed: the call together with what it found.             *)
(***************************************************************************)
\* Values DEFAULT_NOTIFY_HOUR can be configured to: int() of the
\* environment variable accepts any integer.
ConfigHourInputs == {MinHour - 1, DEFAULT_NOTIFY_HOUR, MaxHour + 1}

\* hour arguments of set_notify_hour, below and above the clamp included.
AnyHourInputs == HourInputs \cup {MinHour - 1}

\* A row that differs in every column from the row ensure_user inserts.
CustomRow(row) ==
    /\ row.sign # NULL
    /\ row.notify_hour # configuredNotifyHour
    /\ row.subscribed # 1
    /\ row.last_sent_date # NULL

EnsureUserObserved(u) ==
    /\ users' = ensure_user(users, u)
    /\ ensureCall' = [user_id |-> u, existed |-> u \in DOMAIN users,
                      custom |-> u \in DOMAIN users /\ CustomRow(users[u])]
    /\ UNCHANGED configuredNotifyHour
    /\ UNCHANGED <<today, hour, pushCount, failed, lastMarked>>
    /\ UNCHANGED <<registryVars, noteVars>>
    /\ UNCHANGED <<queryVars, personaVars, auditVars, bootVars, handlerVars, callVars>>

(***************************************************************************)
(* The operations on table users observed: each call with whether the     *)
(* user had a row.                                                         *)
(***************************************************************************)
NoUserCall == [op |-> "none", user_id |-> 0, existed |-> FALSE, ensured |-> {}]

\* The record of one call; ensure_user adds its user to the users it has
\* been called for.
UserCall(name, u) ==
    [op |-> name, user_id |-> u, existed |-> u \in DOMAIN users,
     ensured |-> IF name = "ensure_user" THEN userCall.ensured \cup {u}
                                         ELSE userCall.ensured]

\* Every variable but users and userCall.
UserCallFrame ==
    /\ UNCHANGED <<today, hour, pushCount, failed, lastMarked>>
    /\ UNCHANGED <<registryVars, noteVars>>
    /\ UNCHANGED <<queryVars, personaVars, auditVars, profileVars>>
    /\ UNCHANGED <<bootVars, handlerVars>>

EnsureUserCalled(u) ==
    /\ users' = ensure_user(users, u)
    /\ userCall' = UserCall("ensure_user", u)
    /\ UserCallFrame

SetSignCalled(u, sign) ==
    /\ users' = set_sign(users, u, sign)
    /\ userCall' = UserCall("set_sign", u)
    /\ UserCallFrame

SetNotifyHourCalled(u, h) ==
    /\ users' = set_notify_hour(users, u, h)
    /\ userCall' = UserCall("set_notify_hour", u)
    /\ UserCallFrame

SetSubscribedCalled(u, on) ==
    /\ users' = set_subscribed(users, u, on)
    /\ userCall' = UserCall("set_subscribed", u)
    /\ UserCallFrame

MarkSentTodayCalled(u, today_str) ==
    /\ users' = mark_sent_today(users, u, today_str)
    /\ userCall' = UserCall("mark_sent_today", u)
    /\ UserCallFrame

(***************************************************************************)
(* init_db run on a store that exists already.  Every CREATE ... IF NOT    *)
(* EXISTS finds its table or index and does nothing; the two INSERT OR     *)
(* IGNORE statements skip each seed row that conflicts with a stored row.  *)
(***************************************************************************)
\* Mutant: INSERT OR REPLACE, which deletes the rows the seed row conflicts
\* with and stores the seed row.
InsertOrReplaceModel(t, i) ==
    LET row == SeedModels[i]
        kept == {j \in DOMAIN t \ {i} :
                    /\ t[j].key # row.key
                    /\ ~(row.active = 1 /\ t[j].active = 1)}
    IN  [j \in kept \cup {i} |-> IF j = i THEN row ELSE t[j]]

\* INSERT OR IGNORE of seed row i into models: skipped when a row has the
\* id (PRIMARY KEY) or the key (UNIQUE), or when the seed row is active and
\* a row is active already (ux_models_single_active).
InsertOrIgnoreModel(t, i) ==
    LET row == SeedModels[i]
        conflict == \/ i \in DOMAIN t
                    \/ \E j \in DOMAIN t : t[j].key = row.key
                    \/ (row.active = 1 /\ ActiveIds(t) # {})
    IN  IF conflict THEN t ELSE t @@ (i :> row)

\* The rows of the VALUES list, in order.
RECURSIVE InsertSeedModels(_, _)
InsertSeedModels(t, ids) ==
    IF ids = <<>> THEN t
    ELSE InsertSeedModels(InsertOrIgnoreModel(t, Head(ids)), Tail(ids))

\* INSERT OR IGNORE of seed row i into characters: skipped when a row has
\* the id (PRIMARY KEY) or the name (UNIQUE).
InsertOrIgnoreCharacter(cat, i) ==
    LET row == SeedCharacters[i]
        conflict == \/ i \in DOMAIN cat
                    \/ \E j \in DOMAIN cat : cat[j].name = row.name
    IN  IF conflict THEN cat ELSE cat @@ (i :> row)

RECURSIVE InsertSeedCharacters(_, _)
InsertSeedCharacters(cat, ids) ==
    IF ids = <<>> THEN cat
    ELSE InsertSeedCharacters(InsertOrIgnoreCharacter(cat, Head(ids)), Tail(ids))

\* init_db called again (a restart of the bot, or a second bot process on
\* the same file).  The inserts need the write lock: while another
\* connection holds it the script fails with OperationalError after the
\* busy timeout and has written nothing.
InitDb ==
    /\ initCall.runs < MaxInitRuns
    /\ initCall' = [runs |-> initCall.runs + 1,
                    populated |-> /\ ActiveIds(models) # ActiveIds(SeedModels)
                                  /\ DOMAIN users # {}
                                  /\ DOMAIN user_character # {}
                                  /\ DOMAIN notes # {}]
    /\ IF wlock = NoLock
       THEN /\ models' = InsertSeedModels(models, OrderById(DOMAIN SeedModels))
            /\ characters' = InsertSeedCharacters(characters,
                                 OrderById(DOMAIN SeedCharacters))
       ELSE UNCHANGED <<models, characters>>
    /\ UNCHANGED <<wlock, wtxn, pc, op, arg, ret, lastSwitch, midRead>>
    /\ UNCHANGED <<user_character, personaCall>>
    /\ UNCHANGED <<dueVars, noteVars, queryVars, auditVars, profileVars>>
    /\ UNCHANGED <<handlerVars, callVars>>

(***************************************************************************)
(* set_active_model called while no other connection is open: the          *)
(* transaction and the nested get_active_model run without interleaving.   *)
(***************************************************************************)
set_active_model(t, model_id) ==
    IF model_id \notin DOMAIN t
    THEN [models |-> t, out |-> Raised("ValueError")]
    ELSE get_active_model(SetActiveRow(ClearActive(t), model_id))

SetActiveModel(model_id) ==
    /\ wlock = NoLock
    /\ models' = set_active_model(models, model_id).models
    /\ lastSwitch' = IF model_id \in DOMAIN models THEN model_id ELSE lastSwitch
    /\ UNCHANGED <<wlock, wtxn, pc, op, arg, ret, midRead>>
    /\ UNCHANGED <<dueVars, noteVars, extVars>>

\* The state of everything but the things a deployment can find different
\* from a new store: the registry, the catalog, the assignments and the
\* configured default hour.
InitTail ==
    /\ wlock = NoLock
    /\ wtxn = NULL
    /\ pc = [p \in Procs |-> "idle"]
    /\ op = [p \in Procs |-> NULL]
    /\ arg = [p \in Procs |-> NoArg]
    /\ ret = [p \in Procs |-> NoRet]
    /\ lastSwitch = 0
    /\ midRead = {}
    /\ users = <<>>
    /\ today = 1
    /\ hour = MinHour
    /\ pushCount = [u \in UserIds |-> 0]
    /\ failed = [u \in UserIds |-> NULL]
    /\ lastMarked = [u \in UserIds |-> NULL]
    /\ noteCall = [op |-> "none", user_id |-> 0, text |-> <<>>, existed |-> FALSE]
    /\ noteRet = NoneValue
    /\ noteReply = [kind |-> "none", id |-> 0]
    /\ editCall = NoEditCall
    /\ listRet = [user_id |-> 0, limit |-> 0, rows |-> <<>>]
    /\ searchRet = [user_id |-> 0, needle |-> <<>>, limit |-> 0, rows |-> <<>>]
    /\ personaCall = NoPersonaCall
    /\ service_call_log = <<>>
    /\ error_log = <<>>
    /\ auditCall = NoAuditCall
    /\ ensureCall = [user_id |-> 0, existed |-> FALSE, custom |-> FALSE]
    /\ initCall = [runs |-> 0, populated |-> FALSE]
    /\ askCall = NoAskCall
    /\ userCall = NoUserCall

\* No note has been added yet.
InitCore ==
    /\ notes = <<>>
    /\ noteSeq = 0
    /\ InitTail

\* No assignment has been made yet.
InitRest ==
    /\ user_character = <<>>
    /\ InitCore

\* init_db on a new store file, DEFAULT_NOTIFY_HOUR not set in the
\* environment.
Init ==
    /\ models = SeedModels
    /\ characters = SeedCharacters
    /\ configuredNotifyHour = DEFAULT_NOTIFY_HOUR
    /\ InitRest

Next ==
    \E p \in Procs :
        \/ \E model_id \in ModelIdInputs : CallSetActiveModel(p, model_id)
        \/ CallGetActiveModel(p)
        \/ CallListModels(p)
        \/ Finish(p)
        \/ list_models(p)
        \/ GetActiveSelect(p)
        \/ SetActiveBegin(p)
        \/ SetActiveBusy(p)
        \/ SetActiveExists(p)
        \/ SetActiveClear(p)
        \/ SetActiveSet(p)
        \/ SetActiveCommit(p)

Spec == Init /\ [][Next]_vars

\* The store operations on table users, called in any order with any
\* arguments.
NextDue ==
    \E u \in UserIds :
        \/ EnsureUser(u)
        \/ \E sign \in SignInputs : SetSign(u, sign)
        \/ \E h \in HourInputs : SetNotifyHour(u, h)
        \/ \E on \in BOOLEAN : SetSubscribed(u, on)
        \/ \E today_str \in Dates : MarkSentToday(u, today_str)

SpecDue == Init /\ [][NextDue]_vars

\* The same operations, each call observed; deliveries are marked on the
\* first day of the calendar.
NextUserCalls ==
    \E u \in UserIds :
        \/ EnsureUserCalled(u)
        \/ \E sign \in SignInputs : SetSignCalled(u, sign)
        \/ \E h \in HourInputs : SetNotifyHourCalled(u, h)
        \/ \E on \in BOOLEAN : SetSubscribedCalled(u, on)
        \/ MarkSentTodayCalled(u, Head(Calendar))

SpecUserCalls == Init /\ [][NextUserCalls]_vars

\* The scheduler ticking at any hours of a day that never goes back, with
\* profile operations between the ticks.
NextSched ==
    \/ \E u \in UserIds :
        \/ EnsureUser(u)
        \/ \E sign \in SignInputs : SetSign(u, sign)
        \/ \E h \in HourInputs : SetNotifyHour(u, h)
        \/ \E on \in BOOLEAN : SetSubscribed(u, on)
    \/ \E hr \in Hours : Tick(hr)
    \/ NextDay

SpecSched == Init /\ [][NextSched]_vars

\* The scheduler ticking once per clock hour, with profile operations
\* between the ticks.
NextHourly ==
    \/ \E u \in HourlyUserIds :
        \/ EnsureUser(u)
        \/ \E sign \in SignInputs : SetSign(u, sign)
        \/ \E h \in HourInputs : SetNotifyHour(u, h)
        \/ \E on \in BOOLEAN : SetSubscribed(u, on)
    \/ HourlyTick

SpecHourly == Init /\ [][NextHourly]_vars

\* The note operations, called in any order with any arguments.
NextNotes ==
    \/ \E u \in UserIds, raw \in NoteTextInputs :
        \/ AddNote(u, raw)
        \/ CmdNoteAdd(u, raw)
    \/ \E u \in UserIds, limit \in LimitInputs : ListNotes(u, limit)

SpecNotes == Init /\ [][NextNotes]_vars

\* add_note, update_note and delete_note called in any order by any user.
NextNoteEdit ==
    \E u \in UserIds :
        \/ \E raw \in EditTextInputs : noteSeq < MaxEditSeq /\ AddNote(u, raw)
        \/ \E note_id \in NoteIdInputs, raw \in EditTextInputs :
              UpdateNote(u, note_id, raw)
        \/ \E note_id \in NoteIdInputs : DeleteNote(u, note_id)

SpecNoteEdit == Init /\ [][NextNoteEdit]_vars

\* init_db run again between the operations that write the registry, the
\* users, the assignments and the notes.
NextReinit ==
    \/ InitDb
    \/ \E model_id \in ModelIdInputs : SetActiveModel(model_id)
    \/ \E u \in ProfileUserIds :
          \/ EnsureUser(u)
          \/ SetUserCharacter(u, DefaultCharacterId + 1)
          \/ AddNote(u, <<"a">>)

SpecReinit == Init /\ [][NextReinit]_vars

\* set_active_model ids of the callers that run beside init_db or beside
\* the fallback of get_active_model: the seed default, another row and an
\* id outside the registry
RaceModelIdInputs ==
    {MinOf(DOMAIN SeedModels), MinOf(DOMAIN SeedModels) + 1, MaxModelIdInput}

\* The registry operations of concurrent callers while init_db is run
\* again.
NextBoot ==
    \/ InitDb
    \/ \E p \in Procs :
          \/ \E model_id \in RaceModelIdInputs : CallSetActiveModel(p, model_id)
          \/ CallGetActiveModel(p)
          \/ CallListModels(p)
          \/ Finish(p)
          \/ list_models(p)
          \/ GetActiveSelect(p)
          \/ SetActiveBegin(p)
          \/ SetActiveBusy(p)
          \/ SetActiveExists(p)
          \/ SetActiveClear(p)
          \/ SetActiveSet(p)
          \/ SetActiveCommit(p)

SpecBoot == Init /\ [][NextBoot]_vars

\* Concurrent set_active_model and get_active_model calls on the seeded
\* registry with no row active, where get_active_model takes its fallback.
InitRace ==
    /\ models = ClearActive(SeedModels)
    /\ characters = SeedCharacters
    /\ configuredNotifyHour = DEFAULT_NOTIFY_HOUR
    /\ InitRest

NextRace ==
    \E p \in Procs :
        \/ \E model_id \in RaceModelIdInputs : CallSetActiveModel(p, model_id)
        \/ CallGetActiveModel(p)
        \/ Finish(p)
        \/ GetActiveSelect(p)
        \/ GamLowest(p)
        \/ GamUpdate(p)
        \/ GamBusy(p)
        \/ GamCommit(p)
        \/ SetActiveBegin(p)
        \/ SetActiveBusy(p)
        \/ SetActiveExists(p)
        \/ SetActiveClear(p)
        \/ SetActiveSet(p)
        \/ SetActiveCommit(p)

SpecRace == InitRace /\ [][NextRace]_vars

\* The handlers of the bot run on the worker threads of TeleBot: the
\* registry, ensure_user and add_note are called concurrently, and every
\* thread that can take a step eventually takes one.  set_active_model is
\* called with the id of a stored row and with an unknown id.
LiveModelIdInputs == {MinOf(DOMAIN SeedModels) + 1, MaxModelIdInput}

LiveCall(p) ==
    \/ \E model_id \in LiveModelIdInputs : CallSetActiveModel(p, model_id)
    \/ CallGetActiveModel(p)
    \/ \E u \in ProfileUserIds : CallEnsureUser(p, u)
    \/ \E u \in ProfileUserIds : CallAddNote(p, u)
    \/ Finish(p)

LiveStep(p) ==
    \/ GetActiveSelect(p)
    \/ SetActiveBegin(p)
    \/ SetActiveBusy(p)
    \/ SetActiveExists(p)
    \/ SetActiveClear(p)
    \/ SetActiveSet(p)
    \/ SetActiveCommit(p)
    \/ EnsureUserInsert(p)
    \/ EnsureUserBusy(p)
    \/ EnsureUserCommit(p)
    \/ AddNoteInsert(p)
    \/ AddNoteBusy(p)
    \/ AddNoteCommit(p)

NextLive == \E p \in WorkerThreads : LiveCall(p) \/ LiveStep(p)

SpecLive ==
    /\ Init
    /\ [][NextLive]_vars
    /\ \A p \in WorkerThreads : WF_vars(LiveStep(p))

\* search_notes on every table of SearchTables.
InitSearch ==
    /\ models = SeedModels
    /\ characters = SeedCharacters
    /\ configuredNotifyHour = DEFAULT_NOTIFY_HOUR
    /\ user_character = <<>>
    /\ notes \in SearchTables
    /\ noteSeq = Len(notes)
    /\ InitTail

NextSearch ==
    \E u \in SearchUserIds, raw \in NeedleInputs, limit \in SearchLimitInputs :
        SearchNotes(u, raw, limit)

SpecSearch == InitSearch /\ [][NextSearch]_vars

\* The persona operations and the /ask_random handler on a store whose
\* catalog holds any rows of the seed.
InitPersona ==
    /\ models = SeedModels
    /\ characters \in Catalogs
    /\ configuredNotifyHour = DEFAULT_NOTIFY_HOUR
    /\ InitRest

NextPersona ==
    \E u \in UserIds :
        \/ \E c \in CharacterIdInputs : SetUserCharacter(u, c)
        \/ GetUserCharacter(u)

SpecPersona == InitPersona /\ [][NextPersona]_vars

\* The /ask_random handler on a store with the seeded or an empty
\* registry, the seeded or an empty catalog and any earlier assignments.
InitAskRandom ==
    /\ models \in {SeedModels, <<>>}
    /\ characters \in {Catalog(1..MaxCharacterId), <<>>}
    /\ configuredNotifyHour = DEFAULT_NOTIFY_HOUR
    /\ user_character \in AssignmentInputs(characters)
    /\ InitCore

NextAskRandom ==
    \E u \in UserIds :
        \/ CmdAskRandom(u, TRUE, NoAnswer, "ok")
        \/ \E answer \in ProviderAnswers, audit \in {"ok", "locked"} :
              CmdAskRandom(u, FALSE, answer, audit)

SpecAskRandom == InitAskRandom /\ [][NextAskRandom]_vars

\* The /ask handler on the same stores, with any answer of the provider and
\* either fate of the two audit inserts.
NextAsk ==
    \E u \in ProfileUserIds :
        \/ CmdAsk(u, TRUE, NoAnswer, "ok", "ok")
        \/ \E answer \in ProviderAnswers, audit, err_audit \in {"ok", "locked"} :
              CmdAsk(u, FALSE, answer, audit, err_audit)

SpecAsk == InitAskRandom /\ [][NextAsk]_vars

\* chat_once and the audit functions, with any answer of the provider and
\* any fate of the audit insert.
NextAudit ==
    \E audit \in AuditOutcomes :
        \/ \E answer \in ProviderAnswers : ChatOnce(answer, audit)
        \/ WriteServiceCall(audit)
        \/ WriteErrorLog(audit)

SpecAudit == Init /\ [][NextAudit]_vars

\* The profile operations in a process configured with any default hour.
InitProfile ==
    /\ models = SeedModels
    /\ characters = SeedCharacters
    /\ configuredNotifyHour \in ConfigHourInputs
    /\ InitRest

NextProfile ==
    \E u \in ProfileUserIds :
        \/ EnsureUserObserved(u)
        \/ \E sign \in SignInputs : SetSign(u, sign)
        \/ \E h \in AnyHourInputs : SetNotifyHour(u, h)
        \/ \E on \in BOOLEAN : SetSubscribed(u, on)
        \/ MarkSentToday(u, Calendar[1])

SpecProfile == InitProfile /\ [][NextProfile]_vars

\* Callers of get_active_model on a store whose registry has no active
\* row.
InitFallback ==
    /\ models \in InactiveRegistries
    /\ characters = SeedCharacters
    /\ configuredNotifyHour = DEFAULT_NOTIFY_HOUR
    /\ InitRest

NextFallback ==
    \E p \in Procs :
        \/ CallGetActiveModel(p)
        \/ GetActiveSelect(p)
        \/ GamLowest(p)
        \/ GamUpdate(p)
        \/ GamBusy(p)
        \/ GamCommit(p)
        \/ Finish(p)

SpecFallback == InitFallback /\ [][NextFallback]_vars

(***************************************************************************)
(* Claims about the models registry, checked under Spec.                   *)
(***************************************************************************)

\* C1: starting from the seeded registry, every committed state of table
\* models reachable by any interleaving of set_active_model,
\* get_active_model and list_models calls (existing and non-existing ids)
\* has exactly one row with active=1.
C1_SingleActive == Cardinality(ActiveIds(models)) = 1

\* A switch to a row other than the seed default has been committed and a
\* call with an unknown id has been rejected.
C1_Witness ==
    /\ lastSwitch \in DOMAIN models \ ActiveIds(SeedModels)
    /\ ActiveIds(models) = {lastSwitch}
    /\ \E p \in Procs : ret[p] = Raised("ValueError")

\* Number of entries of a list_models result tagged active.
ActiveEntries(rows) == Cardinality({k \in DOMAIN rows : rows[k].active})

\* C2: a list_models or get_active_model call running concurrently with
\* set_active_model calls never observes the intermediate state of a
\* switch: every list_models result has exactly one entry with active=true
\* and get_active_model never finds "no active row" (it never reaches its
\* fallback SELECT).
C2_NoIntermediateStateObserved ==
    \A p \in Procs :
        /\ (op[p] = "list_models" /\ ret[p].kind = "return")
              => ActiveEntries(ret[p].value) = 1
        /\ pc[p] # "gam_lowest"

\* list_models has returned a result that it read while another caller's
\* switch was between its clear step and its set step.
C2_Witness ==
    \E p \in Procs :
        /\ p \in midRead
        /\ op[p] = "list_models"
        /\ ret[p].kind = "return"

\* The row of the seed with the given id, as get_active_model returns it.
SeedDict(i) ==
    [id |-> i, key |-> SeedModels[i].key, label |-> SeedModels[i].label,
     active |-> TRUE]

\* C3: a get_active_model read (also the one that ends set_active_model)
\* returns the model whose id was the target of the last committed switch,
\* with the key and label of the seed; and key and label of every row stay
\* as seeded whatever calls are made.
C3_RoundTrip ==
    [][/\ \A i \in DOMAIN SeedModels :
            /\ i \in DOMAIN models'
            /\ models'[i].key = SeedModels[i].key
            /\ models'[i].label = SeedModels[i].label
       /\ \A p \in Procs :
            (pc[p] = "gam_select" /\ pc'[p] = "done" /\ lastSwitch # 0)
               => ret'[p] = Returned(SeedDict(lastSwitch))]_vars

\* A stand-alone get_active_model has returned model 3 after a switch to 3.
C3_Witness ==
    \E p \in Procs :
        /\ op[p] = "get_active_model"
        /\ lastSwitch = 3
        /\ ret[p] = Returned(SeedDict(3))

\* C4: no step of a set_active_model call with an id that is not in the
\* registry changes a row of models or leaves zero active rows; once the
\* call has the store its existence check raises ValueError and releases
\* the lock, and the call never returns normally.
C4_UnknownIdRejected ==
    [][\A p \in Procs :
         (op[p] = "set_active_model" /\ arg[p] \notin DOMAIN models
                                     /\ pc'[p] # pc[p])
            => /\ models' = models
               /\ ActiveIds(models') # {}
               /\ pc[p] = "sam_exists"
                    => (pc'[p] = "done" /\ ret'[p] = Raised("ValueError")
                                        /\ wlock' = NoLock)
               /\ pc'[p] = "done" => ret'[p].kind = "raise"]_vars

\* A call with an unknown id was rejected while a row other than the seed
\* default was the active one.
C4_Witness ==
    \E p \in Procs :
        /\ op[p] = "set_active_model"
        /\ arg[p] \notin DOMAIN models
        /\ ret[p] = Raised("ValueError")
        /\ ActiveIds(models) = {2}

(***************************************************************************)
(* Claims about the due-delivery selector, checked under SpecDue.          *)
(***************************************************************************)

\* C6: after mark_sent_today(u, d) for an existing user u, list_due_users(d, h)
\* returns u for no hour h, whatever set_sign, set_notify_hour, set_subscribed
\* or ensure_user calls follow, until mark_sent_today is called for u with
\* another date.
C6_NotDueAfterMark ==
    \A u \in DOMAIN users :
        lastMarked[u] # NULL
           => \A h \in Hours : u \notin DueIds(users, lastMarked[u], h)

\* A user marked for the first day who has a sign, is subscribed and was
\* moved to the last hour: due there on the second day, not on the first.
C6_Witness ==
    \E u \in DOMAIN users :
        /\ lastMarked[u] = Calendar[1]
        /\ users[u].sign # NULL
        /\ users[u].subscribed = 1
        /\ users[u].notify_hour = MaxHour
        /\ u \in DueIds(users, Calendar[2], MaxHour)

\* The users the specification of list_due calls due.
DuePredicate(t, today_str, hr) ==
    {u \in DOMAIN t : /\ t[u].subscribed = 1
                      /\ t[u].sign # NULL
                      /\ t[u].notify_hour = hr
                      /\ (t[u].last_sent_date = NULL
                            \/ t[u].last_sent_date # today_str)}

\* C7: for every store state, date and hour, list_due_users returns exactly
\* the users with subscribed=1, sign not NULL, notify_hour=hour and
\* last_sent_date NULL or different from today: none omitted, none extra,
\* none twice, each with its sign.
C7_DueExactly ==
    \A d \in Dates, h \in Hours :
        LET rows == list_due_users(users, d, h)
        IN  /\ {rows[k].user_id : k \in DOMAIN rows} = DuePredicate(users, d, h)
            /\ Len(rows) = Cardinality(DuePredicate(users, d, h))
            /\ \A k \in DOMAIN rows : rows[k].sign = users[rows[k].user_id].sign

\* Two subscribed users with a sign and the same hour, one never sent to
\* and one already sent to today: exactly the first is due.
C7_Witness ==
    \E d \in Dates, a \in DOMAIN users, b \in DOMAIN users :
        /\ a # b
        /\ users[a].last_sent_date = NULL
        /\ users[b].last_sent_date = d
        /\ users[b].subscribed = 1
        /\ users[b].sign # NULL
        /\ users[b].notify_hour = users[a].notify_hour
        /\ DueIds(users, d, users[a].notify_hour) = {a}

\* C8: mark_sent_today(u, d) applied twice gives the same table as applied
\* once, and one application changes nothing but last_sent_date of user u.
C8_MarkIdempotent ==
    \A u \in UserIds, d \in Dates :
        LET once == mark_sent_today(users, u, d)
        IN  /\ mark_sent_today(once, u, d) = once
            /\ DOMAIN once = DOMAIN users
            /\ \A v \in DOMAIN users :
                 /\ v # u => once[v] = users[v]
                 /\ once[v].sign = users[v].sign
                 /\ once[v].notify_hour = users[v].notify_hour
                 /\ once[v].subscribed = users[v].subscribed
            /\ u \in DOMAIN users => once[u].last_sent_date = d

\* One user was marked for the second day while another user keeps the
\* first day as its last_sent_date.
C8_Witness ==
    \E u \in DOMAIN users, v \in DOMAIN users :
        /\ u # v
        /\ lastMarked[u] = Calendar[2]
        /\ users[u].last_sent_date = Calendar[2]
        /\ users[v].last_sent_date = Calendar[1]

(***************************************************************************)
(* Claims about the scheduler, checked under SpecSched and SpecHourly.     *)
(***************************************************************************)

\* C5: with a scheduler that marks every successfully pushed user before
\* its next tick, no user gets two successful pushes on one calendar day,
\* whatever ensure_user, set_sign, set_notify_hour and set_subscribed calls
\* come between the ticks.
C5_OnePushPerDay == \A u \in UserIds : pushCount[u] <= 1

\* On the second day a user has been pushed once, after having been moved
\* to the last hour of the day.
C5_Witness ==
    \E u \in DOMAIN users :
        /\ today = 2
        /\ pushCount[u] = 1
        /\ users[u].last_sent_date = Calendar[2]
        /\ users[u].notify_hour = MaxHour

\* The clock of the hourly scheduler moves: the step is a tick.
HourlyTickStep == hour' # hour \/ today' # today

\* C9 as claimed: a user who was due at the last tick and whose delivery
\* failed is returned by the next hourly tick when that tick is on the same
\* day.
C9_RetriedByNextTickSameDay ==
    [][\A u \in UserIds :
         (/\ failed[u] = Calendar[today]
          /\ users[u].notify_hour = hour
          /\ HourlyTickStep
          /\ today' = today)
            => u \in DueIds(users, Calendar[today'], hour')]_vars

\* C9 as amended: a user whose delivery failed stays due for the date of
\* the failed tick at the user's notify_hour, and while the user's row is
\* untouched a later hourly tick returns the user exactly when it is a tick
\* at that hour, which one tick per clock hour first reaches on the next
\* day.
C9_RetriedAtSameHourOnly ==
    [][\A u \in UserIds :
         /\ failed'[u] # NULL
              => u \in DueIds(users', failed'[u], users'[u].notify_hour)
         /\ (failed[u] # NULL /\ HourlyTickStep)
              => (u \in DueIds(users, Calendar[today'], hour')
                    <=> hour' = users[u].notify_hour)]_vars

\* A delivery failed on the first day, the rest of that day has been
\* ticked through, and the clock is one hour before the user's hour on the
\* second day.
C9_Witness ==
    \E u \in DOMAIN users :
        /\ failed[u] = Calendar[1]
        /\ today = 2
        /\ hour + 1 = users[u].notify_hour

(***************************************************************************)
(* Claims about the notes, checked under SpecNotes.                        *)
(***************************************************************************)

\* C10: an add_note (directly or through /note_add) whose (user, text) pair
\* is stored already leaves exactly one row for the pair and returns None,
\* and the /note_add handler then sends the failure reply.
C10_DuplicateAddReturnsNone ==
    (noteCall.op # "none" /\ noteCall.existed)
       => /\ Cardinality(NotesWith(notes, noteCall.user_id, noteCall.text)) = 1
          /\ noteRet = NoneValue
          /\ noteCall.op = "cmd_note_add" => noteReply.kind = "failed"

(***************************************************************************)
(* Claims about list_notes, checked under SpecNotes.                       *)
(***************************************************************************)
\* The newest rows of user_id in t, at most n of them, newest first.
NewestRows(t, user_id, n) ==
    LET own == {i \in DOMAIN t : t[i].user_id = user_id}
        top == {i \in own : Cardinality({j \in own : j > i}) < n}
        ids == OrderByIdDesc(top)
    IN  [k \in 1..Len(ids) |-> [id |-> ids[k], text |-> t[ids[k]].text]]

\* C11: for every integer limit, list_notes(user, limit) returns what it
\* returns for the limit clamped to [1,50]: at most 50 rows for a limit
\* above 50, and for limit=0 the same as for limit=1 (at most one row).
C11_LimitClamped ==
    [][listRet' # listRet =>
        LET l == listRet'.limit
            clamped == IF l < 1 THEN 1 ELSE IF l > 50 THEN 50 ELSE l
        IN  /\ listRet'.rows = NewestRows(notes, listRet'.user_id, clamped)
            /\ Len(listRet'.rows) <= 50
            /\ (l = 0 => Len(listRet'.rows) <= 1)]_vars

(***************************************************************************)
(* Claims about persona resolution, checked under SpecPersona and          *)
(* SpecAskRandom.  personaCall' describes the operation of the step.       *)
(***************************************************************************)
\* C12: for a user with no user_character row, get_user_character returns
\* the catalog entry with id=1 when it exists, otherwise the entry with the
\* lowest id, and fails with the empty-catalog error only when the catalog
\* has no rows; the call never creates an assignment row.
C12_DefaultPersona ==
    [][(/\ personaCall'.op = "get_user_character"
        /\ personaCall'.user_id \notin DOMAIN user_character)
       => /\ user_character' = user_character
          /\ personaCall'.out =
                IF 1 \in DOMAIN characters
                THEN PersonaReturn(CharacterDict(characters, 1))
                ELSE IF DOMAIN characters # {}
                THEN PersonaReturn(CharacterDict(characters,
                                                 MinOf(DOMAIN characters)))
                ELSE PersonaRaise("RuntimeError")]_vars

\* A user without a row asked for their persona on a catalog without id=1
\* and got its lowest-id entry, while another user holds an assignment.
C12_Witness ==
    /\ personaCall.op = "get_user_character"
    /\ personaCall.user_id \notin DOMAIN user_character
    /\ user_character # <<>>
    /\ 1 \notin DOMAIN characters
    /\ personaCall.out.kind = "return"
    /\ personaCall.out.character.id = MinOf(DOMAIN characters)

\* C13: set_user_character(user, character_id) with a character_id that is
\* not in the catalog fails with ValueError and leaves the user's prior
\* assignment (present or absent) and every other user's assignment
\* unchanged.
C13_UnknownCharacterRejected ==
    [][(/\ personaCall'.op = "set_user_character"
        /\ personaCall'.character_id \notin DOMAIN characters)
       => /\ personaCall'.out = PersonaRaise("ValueError")
          /\ user_character' = user_character]_vars

\* A user holding an assignment asked for an unknown id and got the error,
\* while another user holds an assignment too.
C13_Witness ==
    /\ personaCall.op = "set_user_character"
    /\ personaCall.character_id \notin DOMAIN characters
    /\ personaCall.out.kind = "raise"
    /\ personaCall.user_id \in DOMAIN user_character
    /\ \E v \in DOMAIN user_character : v # personaCall.user_id

\* C14: after set_user_character(u, c) with c in the catalog, whether u had
\* no assignment or a previous one, get_user_character(u) returns c, u has
\* exactly one assignment row, and get_user_character(v) is unchanged for
\* every other user v.
C14_SetThenGet ==
    [][(/\ personaCall'.op = "set_user_character"
        /\ personaCall'.character_id \in DOMAIN characters)
       => LET u == personaCall'.user_id
              c == personaCall'.character_id
              resolved == PersonaReturn(CharacterDict(characters, c))
          IN  /\ personaCall'.out = resolved
              /\ get_user_character(characters, user_character', u) = resolved
              /\ u \in DOMAIN user_character' /\ user_character'[u] = c
              /\ \A v \in UserIds \ {u} :
                    /\ AssignedId(user_character', v) = AssignedId(user_character, v)
                    /\ get_user_character(characters, user_character', v)
                       = get_user_character(characters, user_character, v)]_vars

\* A user replaced a previous assignment by a different character while
\* another user holds an assignment.
C14_Witness ==
    /\ personaCall.op = "set_user_character"
    /\ personaCall.out.kind = "return"
    /\ personaCall.prev # 0
    /\ personaCall.prev # personaCall.character_id
    /\ \E v \in DOMAIN user_character : v # personaCall.user_id

\* C15: handling /ask_random leaves the user_character table unchanged for
\* every user, on the success path and on every error path.
C15_AskRandomKeepsAssignments ==
    [][personaCall'.op = "cmd_ask_random"
       => user_character' = user_character]_vars

\* A user without an assignment got the provider's error reply after an
\* earlier /ask_random was answered, while another user holds an
\* assignment.
C15_Witness ==
    /\ personaCall.op = "cmd_ask_random"
    /\ personaCall.out.error = "error"
    /\ Len(service_call_log) > 0
    /\ personaCall.user_id \notin DOMAIN user_character
    /\ user_character # <<>>

(***************************************************************************)
(* Claims about the audit log, checked under SpecAudit.  auditCall         *)
(* describes the last call.                                                *)
(***************************************************************************)
\* C16: write_service_call and write_error_log never raise to their
\* caller: when the audit insert fails the call returns normally, no audit
\* row is added, and the outcome of the audited operation (chat_once's
\* result or raised error) is the same as when the insert succeeds.
C16_AuditNeverRaises ==
    /\ auditCall.op \in {"write_service_call", "write_error_log"}
          => auditCall.out = ChatReturn
    /\ auditCall.audit # "ok" => auditCall.added = 0
    /\ auditCall.op = "chat_once"
          => auditCall.out = chat_once(<<>>, auditCall.answer, "ok").out

\* chat_once got a well-formed 2xx answer and returned its text although
\* the audit insert failed, on a log that holds an earlier row.
C16_Witness ==
    /\ auditCall.op = "chat_once"
    /\ auditCall.audit # "ok"
    /\ auditCall.answer.kind = "response"
    /\ auditCall.answer.wellformed
    /\ auditCall.out = ChatReturn
    /\ auditCall.added = 0
    /\ Len(service_call_log) > 0

\* C17: every chat_once invocation that issues the HTTP request appends
\* exactly one service_call_log row (when the audit write itself
\* succeeds), whether the provider answers with a 2xx response, a non-2xx
\* status, a 2xx response of unexpected structure, or the request times
\* out.
C17_EveryRequestLogged ==
    (/\ auditCall.op = "chat_once"
     /\ auditCall.answer.kind # "no_api_key"
     /\ auditCall.audit = "ok")
    => auditCall.added = 1

(***************************************************************************)
(* Claims about the users rows, checked under SpecProfile.                 *)
(***************************************************************************)
\* C18: in every reachable store state every users row has notify_hour in
\* [0,23], for any sequence of ensure_user and set_notify_hour calls with
\* arbitrary integer hours and for any configured DEFAULT_NOTIFY_HOUR.
C18_NotifyHourInRange ==
    \A u \in DOMAIN users : users[u].notify_hour \in 0..23

\* C19: ensure_user is idempotent and never overwrites: if a users row for
\* user_id exists, ensure_user(user_id) leaves its sign, notify_hour,
\* subscribed and last_sent_date unchanged; and no operation ever removes
\* a users row.
C19_EnsureUserKeepsRows ==
    [][/\ DOMAIN users \subseteq DOMAIN users'
       /\ (ensureCall' # ensureCall /\ ensureCall'.existed) => users' = users
       /\ \A u \in DOMAIN users' : ensure_user(users', u) = users']_vars

\* ensure_user was called for a user whose row differed from the defaults
\* in every column, and the row is still that way.
C19_Witness ==
    /\ ensureCall.existed
    /\ ensureCall.custom
    /\ CustomRow(users[ensureCall.user_id])

(***************************************************************************)
(* Claims about the fallback of get_active_model, checked under            *)
(* SpecFallback.                                                           *)
(***************************************************************************)
\* C20: when the registry is non-empty and no row has active=1,
\* get_active_model() makes the lowest-id row the single active row and
\* returns it; when the registry has zero rows it fails with the
\* empty-registry error and changes nothing.
C20_FallbackActivatesLowest ==
    [][\A p \in Procs :
        /\ (pc[p] = "gam_lowest" /\ pc'[p] # pc[p])
              => /\ models' = models
                 /\ IF DOMAIN models = {}
                    THEN pc'[p] = "done" /\ ret'[p] = Raised("RuntimeError")
                    ELSE pc'[p] = "gam_update"
        /\ (pc[p] = "gam_update" /\ pc'[p] = "done")
              => models' = models /\ ret'[p] = Raised("OperationalError")
        /\ (pc[p] = "gam_commit" /\ pc'[p] # pc[p])
              => /\ pc'[p] = "done"
                 /\ DOMAIN models' = DOMAIN models
                 /\ ActiveIds(models') = {MinOf(DOMAIN models')}
                 /\ ret'[p] = Returned([id |-> MinOf(DOMAIN models'),
                                       key |-> models[MinOf(DOMAIN models')].key,
                                       label |-> models[MinOf(DOMAIN models')].label,
                                       active |-> TRUE])]_vars

\* A call on a registry of several rows without id 1 and without an active
\* row has returned the lowest-id row, which is now the single active row.
C20_Witness ==
    \E p \in Procs :
        /\ op[p] = "get_active_model"
        /\ pc[p] = "done"
        /\ ret[p].kind = "return"
        /\ 1 \notin DOMAIN models
        /\ Cardinality(DOMAIN models) > 1
        /\ ActiveIds(models) = {MinOf(DOMAIN models)}
        /\ ret[p].value.id = MinOf(DOMAIN models)

(***************************************************************************)
(* Claims about add_note, update_note and delete_note, checked under       *)
(* SpecNoteEdit.  noteCall' and editCall' describe the operation of the    *)
(* step.                                                                   *)
(***************************************************************************)
\* C21: add_note and update_note called with a text that is empty after
\* trimming or longer than 500 characters reject it without raising
\* (add_note returns None, update_note returns False) and leave the notes
\* table unchanged.
C21_InvalidTextRejected ==
    [][/\ (editCall'.op = "update_note" /\ (editCall'.blank \/ editCall'.long))
            => (~editCall'.raised /\ ~editCall'.ok /\ notes' = notes)
       /\ (noteCall'.op = "add_note"
             /\ (noteCall'.text = <<>> \/ Len(noteCall'.text) > 500))
            => (noteRet' = NoneValue /\ notes' = notes)]_vars

\* C23: in every reachable store state no two notes rows have the same
\* (user_id, text) pair, and every stored text is non-empty, trimmed and at
\* most 500 characters long.
C23_NotesWellFormed ==
    \A i \in DOMAIN notes :
        /\ notes[i].text # <<>>
        /\ Strip(notes[i].text) = notes[i].text
        /\ Len(notes[i].text) <= 500
        /\ \A j \in DOMAIN notes :
              (notes[j].user_id = notes[i].user_id /\ notes[j].text = notes[i].text)
                  => i = j

\* The user whose call the step is.
Caller == IF editCall.op # "none" THEN editCall.user_id ELSE noteCall.user_id

\* The rows of user_id, and nothing else.
RowsOf(t, user_id) == [i \in {k \in DOMAIN t : t[k].user_id = user_id} |-> t[i]]

\* C28: update_note and delete_note called with the id of a note of another
\* user return False and leave the notes table unchanged; what list_notes,
\* search_notes and count_notes return for a user depends only on the rows
\* of that user, and no operation of another user changes it.
C28_NotesIsolated ==
    /\ [](\A u \in UserIds :
            /\ \A limit \in LimitInputs :
                  list_notes(notes, u, limit)
                      = list_notes(RowsOf(notes, u), u, limit)
            /\ \A raw \in NeedleInputs, limit \in SearchLimitInputs :
                  search_notes(notes, u, raw, limit)
                      = search_notes(RowsOf(notes, u), u, raw, limit)
            /\ count_notes(notes, u) = count_notes(RowsOf(notes, u), u))
    /\ [][/\ editCall'.foreign
                => (~editCall'.ok /\ ~editCall'.raised /\ notes' = notes)
           /\ \A u \in UserIds :
                u # Caller' => RowsOf(notes', u) = RowsOf(notes, u)]_vars

\* A user called update_note with the id of a note of another user while
\* the caller had a note as well; the call returned False.
C28_Witness ==
    /\ editCall.op = "update_note"
    /\ editCall.foreign
    /\ ~editCall.blank
    /\ ~editCall.ok
    /\ \A u \in UserIds : count_notes(notes, u) > 0

(***************************************************************************)
(* Claims about search_notes, checked under SpecSearch.                    *)
(***************************************************************************)
\* Case-insensitive comparison of characters, beyond ASCII as well.
CaseFold(c) == IF c = CyrUpper THEN CyrLower ELSE LikeFold(c)

\* text contains needle as a literal substring, compared case-insensitively
Contains(text, needle) ==
    \E k \in 1..(Len(text) - Len(needle) + 1) :
        \A d \in 1..Len(needle) : CaseFold(text[k + d - 1]) = CaseFold(needle[d])

\* C29: for every user, non-empty needle and limit, search_notes returns
\* exactly the user's notes whose text contains the needle as a literal
\* substring, compared case-insensitively, highest ids first, up to the
\* clamped limit; also when the needle holds '%' or '_'.
C29_SearchLiteralSubstring ==
    searchRet.needle # <<>> =>
        LET own == {i \in DOMAIN notes :
                        /\ notes[i].user_id = searchRet.user_id
                        /\ Contains(notes[i].text, searchRet.needle)}
            top == {i \in own :
                        Cardinality({j \in own : j > i}) < searchRet.limit}
            ids == OrderByIdDesc(top)
        IN  searchRet.rows
                = [k \in 1..Len(ids) |-> [id |-> ids[k], text |-> notes[ids[k]].text]]

(***************************************************************************)
(* Claims about init_db run again, checked under SpecReinit.               *)
(***************************************************************************)
\* C22: running init_db again on an initialised store changes no data: the
\* active model stays (also after a switch away from the seed default), no
\* models or characters row is added or changed, and no user, assignment
\* or note row changes.
C22_InitDbAgainKeepsData ==
    [][initCall' # initCall =>
          /\ models' = models
          /\ characters' = characters
          /\ users' = users
          /\ user_character' = user_character
          /\ notes' = notes]_vars

\* init_db has run on a store whose active model was not the seed default
\* and which held a user, an assignment and a note, and they are all still
\* there.
C22_Witness ==
    /\ initCall.populated
    /\ ActiveIds(models) # ActiveIds(SeedModels)
    /\ DOMAIN users # {}
    /\ DOMAIN user_character # {}
    /\ DOMAIN notes # {}

C25_ReturnsOwnSwitch ==
    \A p \in Procs :
        (op[p] = "set_active_model" /\ pc[p] = "done" /\ ret[p].kind = "return")
            => ret[p].value.id = arg[p]

(***************************************************************************)
(* Claims about the registry while init_db is run again, checked under     *)
(* SpecBoot.                                                               *)
(***************************************************************************)
\* C26: starting from the seeded registry, no interleaving of
\* set_active_model, get_active_model, list_models and init_db calls
\* commits a state with no active row, and no get_active_model call goes
\* on to its fallback.
C26_FallbackNeverRuns ==
    /\ ActiveIds(models) # {}
    /\ \A p \in Procs : pc[p] # "gam_lowest"

\* After an init_db run and a committed switch, a get_active_model call
\* that read while a switch was between its clear step and its set step
\* has returned a row.
C26_Witness ==
    /\ initCall.runs > 0
    /\ lastSwitch # 0
    /\ \E p \in midRead :
          /\ op[p] = "get_active_model"
          /\ pc[p] = "done"
          /\ ret[p].kind = "return"


\* C27: in the /ask handler, whenever the provider call fails with any
\* exception (an OpenRouterError, or another one such as a request
\* timeout), exactly one error_log row is written for the failure, the user
\* gets an error reply and no exception leaves the handler.  The row is
\* counted when the store accepts the insert.
C27_AskFailureLogged ==
    (askCall.op = "cmd_ask" /\ askCall.called /\ askCall.failure # "none")
        => /\ askCall.err_audit = "ok" => askCall.errors_added = 1
           /\ askCall.reply \in {"error", "unexpected"}
           /\ askCall.raised = "none"

\* The OpenRouterError half of C27, which the handler does keep.
C27_OpenRouterErrorLogged ==
    (askCall.op = "cmd_ask" /\ askCall.failure = "OpenRouterError")
        => /\ askCall.err_audit = "ok" => askCall.errors_added = 1
           /\ askCall.reply = "error"
           /\ askCall.raised = "none"



(***************************************************************************)
(* Termination of the store operations, checked under SpecLive.            *)
(***************************************************************************)
\* C30: every store operation terminates under any interleaving of
\* concurrent callers: a call in progress eventually returns or raises
\* (an operation that finds the write lock held goes on once the lock is
\* free or fails with the store-busy error), also the get_active_model
\* call nested in set_active_model, and no caller holds the write lock
\* after its operation has returned or raised.
C30_EveryOperationTerminates ==
    /\ \A p \in WorkerThreads : (pc[p] # "idle") ~> (pc[p] = "done")
    /\ [](\A p \in WorkerThreads : pc[p] \in {"idle", "done"} => wlock # p)

\* A set_active_model call has returned its row, another caller's add_note
\* or ensure_user has failed with the store-busy error, and the lock is
\* free.
C30_Witness ==
    /\ wlock = NoLock
    /\ \E p, q \in WorkerThreads :
          /\ op[p] = "set_active_model" /\ pc[p] = "done"
          /\ ret[p].kind = "return"
          /\ op[q] \in {"add_note", "ensure_user"} /\ pc[q] = "done"
          /\ ret[q].kind = "raise"
          /\ ret[q].value = "OperationalError"


(***************************************************************************)
(* Claims about the users operations called for a user without a row,      *)
(* checked under SpecUserCalls.                                            *)
(***************************************************************************)
\* C31: set_sign, set_notify_hour, set_subscribed and mark_sent_today
\* called for a user_id without a users row leave the table unchanged and
\* create no row; a row is only ever created by ensure_user, so a user for
\* whom ensure_user was never called is returned by no list_due_users
\* call.
C31_NoRowWithoutEnsureUser ==
    /\ [](\A u \in UserIds \ userCall.ensured :
            /\ u \notin DOMAIN users
            /\ \A today_str \in Dates, hr \in Hours :
                  u \notin DueIds(users, today_str, hr))
    /\ [][(userCall'.op \notin {"none", "ensure_user"} /\ ~userCall'.existed)
              => users' = users]_vars

\* set_sign has been called for a user without a row while another user,
\* whose row ensure_user created, is due.
C31_Witness ==
    /\ userCall.op = "set_sign"
    /\ ~userCall.existed
    /\ userCall.user_id \notin userCall.ensured
    /\ \E v \in userCall.ensured, today_str \in Dates, hr \in Hours :
          v \in DueIds(users, today_str, hr)

============================================================================
